---- MODULE Spec2Model ----
(***************************************************************************)
(* A model of pyEQL's Solution class (src/pyEQL.py): the composition       *)
(* model, the amount/unit conversion engine, the activity-coefficient      *)
(* dispatcher and the mixing functions mix / entropy_mix / gibbsmix.       *)
(*                                                                         *)
(* Numbers.  Python floats are modelled as exact rationals in a canonical  *)
(* scientific form, so every comparison below is the comparison of         *)
(* the real numbers the code's expressions denote (rounding is not         *)
(* modelled).  Transcendental results (math.sqrt, math.log, math.exp and   *)
(* the water-property correlations) are kept as symbolic terms whose       *)
(* equality is decided on a canonical form.                                *)
(*                                                                         *)
(* Python outcomes.  A call either returns a number, returns None, returns *)
(* an object, or raises; a result is a record whose field kind says which. *)
(***************************************************************************)
EXTENDS Integers, Sequences, FiniteSets, TLC

VARIABLES sols, last, nset, nmix, bags

vars == <<sols, last, nset, nmix, bags>>

----------------------------------------------------------------------------
(* Exact rational arithmetic.  A number is <<n, d, e>>, standing for       *)
(* (n / d) * 10^e, in the canonical form gcd(n, d) = 1, d > 0, neither n   *)
(* nor d a multiple of 5 (zero is <<0, 1, 0>>); two numbers are equal      *)
(* exactly when their canonical forms are.                                 *)

RECURSIVE GCD(_, _)
GCD(a, b) == IF b = 0 THEN a ELSE GCD(b, a % b)

Abs(n) == IF n < 0 THEN -n ELSE n

RECURSIVE Pow10(_)
Pow10(k) == IF k = 0 THEN 1 ELSE 10 * Pow10(k - 1)

\* move every factor 5 of n and d into the power of ten (d > 0)
RECURSIVE Strip(_, _, _)
Strip(n, d, e) ==
    IF n = 0 THEN <<0, 1, 0>>
    ELSE IF n % 5 = 0 THEN
        IF (n \div 5) % 2 = 0 THEN Strip(n \div 10, d, e + 1)
        ELSE Strip(n \div 5, d * 2, e + 1)
    ELSE IF d % 5 = 0 THEN
        IF (d \div 5) % 2 = 0 THEN Strip(n, d \div 10, e - 1)
        ELSE Strip(n * 2, d \div 5, e - 1)
    ELSE <<n \div GCD(Abs(n), d), d \div GCD(Abs(n), d), e>>

\* the canonical form of (n / d) * 10^e, d # 0: the common factor is taken
\* out and d made positive
Q(n, d, e) ==
    IF d < 0
    THEN Strip((-n) \div GCD(Abs(n), Abs(d)), (-d) \div GCD(Abs(n), Abs(d)), e)
    ELSE Strip(n \div GCD(Abs(n), Abs(d)), d \div GCD(Abs(n), Abs(d)), e)

QInt(n) == Q(n, 1, 0)
Dec(n, e) == Q(n, 1, e)
QZero == <<0, 1, 0>>
QOne == <<1, 1, 0>>

Min(a, b) == IF a < b THEN a ELSE b

\* numerators of x and y over the common exponent Min(x[3], y[3])
Aligned(x, y) == x[1] * Pow10(x[3] - Min(x[3], y[3]))

QIsZero(x) == x[1] = 0
QSign(x) == IF x[1] > 0 THEN 1 ELSE IF x[1] < 0 THEN -1 ELSE 0

\* x + y over the least common denominator
QAdd(x, y) ==
    IF QIsZero(x) THEN y
    ELSE IF QIsZero(y) THEN x
    ELSE Q(Aligned(x, y) * (y[2] \div GCD(x[2], y[2]))
             + Aligned(y, x) * (x[2] \div GCD(x[2], y[2])),
           (x[2] \div GCD(x[2], y[2])) * y[2], Min(x[3], y[3]))

QNeg(x) == <<-x[1], x[2], x[3]>>

\* x * y after cross-cancelling, so that intermediate products stay small
QMul(x, y) ==
    Q((x[1] \div GCD(Abs(x[1]), y[2])) * (y[1] \div GCD(Abs(y[1]), x[2])),
      (x[2] \div GCD(Abs(y[1]), x[2])) * (y[2] \div GCD(Abs(x[1]), y[2])),
      x[3] + y[3])
QDiv(x, y) == QMul(x, Q(y[2], y[1], -y[3]))

QLt(x, y) ==
    IF QSign(x) # QSign(y) THEN QSign(x) < QSign(y)
    ELSE Aligned(x, y) * (y[2] \div GCD(x[2], y[2]))
            < Aligned(y, x) * (x[2] \div GCD(x[2], y[2]))
QLeq(x, y) == x = y \/ QLt(x, y)

----------------------------------------------------------------------------
(* Python outcomes                                                         *)

Num(q) == [kind |-> "num", val |-> q]
None == [kind |-> "none"]
Raise(e) == [kind |-> "raise", err |-> e]
IsRaise(r) == r.kind = "raise"

\* r1 + r2 for two outcomes: the first exception propagates
PyAdd(r1, r2) ==
    IF IsRaise(r1) THEN r1
    ELSE IF IsRaise(r2) THEN r2
    ELSE Num(QAdd(r1.val, r2.val))

\* r1 * r2 for two outcomes: the first exception propagates
PyTimes(r1, r2) ==
    IF IsRaise(r1) THEN r1
    ELSE IF IsRaise(r2) THEN r2
    ELSE Num(QMul(r1.val, r2.val))

\* r1 / r2 in Python: ZeroDivisionError on a zero divisor
PyDiv(r1, r2) ==
    IF IsRaise(r1) THEN r1
    ELSE IF IsRaise(r2) THEN r2
    ELSE IF QIsZero(r2.val) THEN Raise("ZeroDivisionError")
    ELSE Num(QDiv(r1.val, r2.val))

----------------------------------------------------------------------------
(* Strings.  A formula is a string; Chars gives its characters so that the *)
(* code's endswith / find tests are computed on the text.                  *)

Chars(f) ==
    CASE f = "H2O" -> <<"H", "2", "O">>
      [] f = "water" -> <<"w", "a", "t", "e", "r">>
      [] f = "EtOH" -> <<"E", "t", "O", "H">>
      [] f = "Na+" -> <<"N", "a", "+">>
      [] f = "Cl-" -> <<"C", "l", "-">>
      [] f = "SO4-2" -> <<"S", "O", "4", "-", "2">>
      [] f = "Mg+2" -> <<"M", "g", "+", "2">>
      [] f = "Urea" -> <<"U", "r", "e", "a">>
      [] f = "Al+3" -> <<"A", "l", "+", "3">>
      [] f = "PO4-3" -> <<"P", "O", "4", "-", "3">>
      [] f = "Sn+4" -> <<"S", "n", "+", "4">>
      [] f = "SiO4-4" -> <<"S", "i", "O", "4", "-", "4">>
      [] f = "V+5" -> <<"V", "+", "5">>
      [] f = "P3O10-5" -> <<"P", "3", "O", "1", "0", "-", "5">>
      [] f = "Cr+6" -> <<"C", "r", "+", "6">>
      [] f = "Fe(CN)6-6" -> <<"F", "e", "(", "C", "N", ")", "6", "-", "6">>
      [] f = "Mn+7" -> <<"M", "n", "+", "7">>
      [] f = "X-7" -> <<"X", "-", "7">>
      [] f = "Na+1" -> <<"N", "a", "+", "1">>
      [] f = "Cl-1" -> <<"C", "l", "-", "1">>
      [] f = "Os+8" -> <<"O", "s", "+", "8">>
      [] f = "X-12" -> <<"X", "-", "1", "2">>
      [] f = "Cu+2(aq)" -> <<"C", "u", "+", "2", "(", "a", "q", ")">>

\* str.endswith(suffix)
endswith(cs, suffix) ==
    /\ Len(suffix) <= Len(cs)
    /\ SubSeq(cs, Len(cs) - Len(suffix) + 1, Len(cs)) = suffix

\* str.find(ch) >= 0
found(cs, ch) == \E i \in 1..Len(cs) : cs[i] = ch

----------------------------------------------------------------------------
(* class Solution.Solute                                                   *)

\* the chain with a branch that reads any digit after the sign
charge_of_AnyDigit(cs) ==
    IF endswith(cs, <<"-">>) THEN [charge |-> -1, printed |-> <<>>]
    ELSE IF endswith(cs, <<"+">>) THEN [charge |-> 1, printed |-> <<>>]
    ELSE IF Len(cs) > 1 /\ cs[Len(cs) - 1] = "+" THEN [charge |-> 8, printed |-> <<>>]
    ELSE IF Len(cs) > 1 /\ cs[Len(cs) - 1] = "-" THEN [charge |-> -8, printed |-> <<>>]
    ELSE [charge |-> 0, printed |-> <<>>]

\* the if / elif chain of Solute.__init__ on the characters of the formula:
\* the charge and what is printed
charge_of(cs) ==
    IF endswith(cs, <<"-">>) THEN [charge |-> -1, printed |-> <<>>]
    ELSE IF endswith(cs, <<"+">>) THEN [charge |-> 1, printed |-> <<>>]
    ELSE IF endswith(cs, <<"-", "2">>) THEN [charge |-> -2, printed |-> <<>>]
    ELSE IF endswith(cs, <<"+", "2">>) THEN [charge |-> 2, printed |-> <<>>]
    ELSE IF endswith(cs, <<"-", "3">>) THEN [charge |-> -3, printed |-> <<>>]
    ELSE IF endswith(cs, <<"+", "3">>) THEN [charge |-> 3, printed |-> <<>>]
    ELSE IF endswith(cs, <<"-", "4">>) THEN [charge |-> -4, printed |-> <<>>]
    ELSE IF endswith(cs, <<"+", "4">>) THEN [charge |-> 4, printed |-> <<>>]
    ELSE IF endswith(cs, <<"-", "5">>) THEN [charge |-> -5, printed |-> <<>>]
    ELSE IF endswith(cs, <<"+", "5">>) THEN [charge |-> 5, printed |-> <<>>]
    ELSE IF endswith(cs, <<"-", "6">>) THEN [charge |-> -6, printed |-> <<>>]
    ELSE IF endswith(cs, <<"+", "6">>) THEN [charge |-> 6, printed |-> <<>>]
    ELSE IF endswith(cs, <<"-", "7">>) THEN [charge |-> -7, printed |-> <<>>]
    ELSE IF endswith(cs, <<"+", "7">>) THEN [charge |-> 7, printed |-> <<>>]
    ELSE IF found(cs, "-") \/ found(cs, "+")
    THEN [charge |-> 0, printed |-> <<"Warning: valence of ion out of bounds">>]
    ELSE [charge |-> 0, printed |-> <<>>]

Solute__init__(formula, molecular_weight, moles, parameters) ==
    [formula |-> formula, mw |-> molecular_weight, moles |-> moles,
     parameters |-> parameters,
     charge |-> charge_of(Chars(formula)).charge,
     parameters_TCPC |-> [k \in {} |-> QZero]]

\* Solute.add_parameter: self.parameters.update({id: value}) on the
\* dictionary the Solute refers to; bs gives the content of every dictionary
add_parameter(bs, solute, id, value) ==
    [bs EXCEPT ![solute.parameters] =
        [k \in DOMAIN @ \cup {id} |-> IF k = id THEN value ELSE @[k]]]

\* Solute.set_parameters_TCPC: the dictionary is replaced wholesale
set_parameters_TCPC(solute, S, b, n, valence, counter_valence, stoich_coeff, counter_stoich_coeff) ==
    [solute EXCEPT !.parameters_TCPC =
        [k \in {"S", "b", "n", "z_plus", "z_minus", "nu_plus", "nu_minus"} |->
            CASE k = "S" -> S
              [] k = "b" -> b
              [] k = "n" -> n
              [] k = "z_plus" -> valence
              [] k = "z_minus" -> counter_valence
              [] k = "nu_plus" -> stoich_coeff
              [] k = "nu_minus" -> counter_stoich_coeff]]

----------------------------------------------------------------------------
(* class Solution: the amount / unit conversion engine                     *)

\* dict.update({key: value}): a new key is appended, an old one keeps its place
DictUpdate(sol, key, value) ==
    [sol EXCEPT
        !.keys = IF key \in DOMAIN sol.comps THEN @ ELSE Append(@, key),
        !.comps = [k \in DOMAIN sol.comps \cup {key} |->
                      IF k = key THEN value ELSE sol.comps[k]]]

\* Solution.get_volume: the attribute set by __init__ (AttributeError before)
get_volume(sol) ==
    IF sol.volume.kind = "none" THEN Raise("AttributeError") ELSE sol.volume

\* Solute.get_moles and Solute.get_molecular_weight of a component
get_moles(sol, solute) == sol.comps[solute].moles
get_molecular_weight(sol, solute) == sol.comps[solute].mw

\* the loop of get_total_moles_solute over the keys, in iteration order
RECURSIVE total_moles(_, _, _)
total_moles(sol, keys, tot_mol) ==
    IF keys = <<>> THEN tot_mol
    ELSE IF Head(keys) # sol.solvent_name
    THEN total_moles(sol, Tail(keys), QAdd(tot_mol, get_moles(sol, Head(keys))))
    ELSE total_moles(sol, Tail(keys), tot_mol)

\* Solution.get_total_moles_solute: every component but the solvent
get_total_moles_solute(sol) == total_moles(sol, sol.keys, QZero)

MassUnitScale ==
    [u \in {"ng", "ug", "mg", "g", "kg"} |->
        CASE u = "ng" -> Dec(1, 9)
          [] u = "ug" -> Dec(1, 6)
          [] u = "mg" -> Dec(1, 3)
          [] u = "g" -> QOne
          [] u = "kg" -> Dec(1, -3)]

PerVolume == [u \in {"ng/L", "ug/L", "mg/L", "g/L", "kg/L"} |->
                 CASE u = "ng/L" -> "ng" [] u = "ug/L" -> "ug" [] u = "mg/L" -> "mg"
                   [] u = "g/L" -> "g" [] u = "kg/L" -> "kg"]

MassFractionUnits == {"ppt", "ppb", "ppm", "mg/kg", "%", "g/g", "mg/mg", "kg/kg"}

\* moles * molecular weight * scale: the mass of a component in a mass unit
mass_in(sol, solute, scale) ==
    QMul(QMul(get_moles(sol, solute), get_molecular_weight(sol, solute)), scale)

\* Solution.get_solvent_mass: get_amount(solvent_name, 'kg')
get_solvent_mass(sol) ==
    IF sol.solvent_name \notin DOMAIN sol.comps THEN Raise("KeyError")
    ELSE Num(mass_in(sol, sol.solvent_name, MassUnitScale["kg"]))

\* Solution.get_moles_water: get_amount(solvent_name, 'mol')
get_moles_water(sol) ==
    IF sol.solvent_name \notin DOMAIN sol.comps THEN Raise("KeyError")
    ELSE Num(get_moles(sol, sol.solvent_name))

\* Solution.get_amount (the temperature argument only reaches get_volume,
\* which ignores it)
get_amount(sol, solute, unit) ==
    IF solute \notin DOMAIN sol.comps THEN Raise("KeyError")
    ELSE CASE unit = "mol" -> Num(get_moles(sol, solute))
           [] unit = "mmol" -> Num(QMul(get_moles(sol, solute), QInt(1000)))
           [] unit = "mol/kg" ->
                 PyDiv(Num(get_moles(sol, solute)), get_solvent_mass(sol))
           [] unit = "fraction" ->
                 PyDiv(Num(get_moles(sol, solute)),
                       PyAdd(Num(get_total_moles_solute(sol)), get_moles_water(sol)))
           [] unit = "mol/L" -> PyDiv(Num(get_moles(sol, solute)), get_volume(sol))
           [] unit = "mmol/L" ->
                 PyDiv(Num(QMul(get_moles(sol, solute), QInt(1000))), get_volume(sol))
           [] unit \in DOMAIN PerVolume ->
                 PyDiv(Num(mass_in(sol, solute, MassUnitScale[PerVolume[unit]])),
                       get_volume(sol))
           [] unit \in DOMAIN MassUnitScale ->
                 Num(mass_in(sol, solute, MassUnitScale[unit]))
           [] unit \in MassFractionUnits ->
                 \* self.get_mass * 1e3 multiplies a bound method by a float
                 Raise("TypeError")
           [] OTHER -> None

\* the loop of get_mass over the keys
RECURSIVE total_mass(_, _, _)
total_mass(sol, keys, acc) ==
    IF keys = <<>> THEN acc
    ELSE total_mass(sol, Tail(keys),
                    QAdd(acc, mass_in(sol, Head(keys), MassUnitScale["kg"])))

\* Solution.get_mass: total mass in kg
get_mass(sol) == total_mass(sol, sol.keys, QZero)

\* set_moles reaching every component of the Solution
set_moles_EveryComponent(sol, solute, moles) ==
    [sol EXCEPT !.comps = [k \in DOMAIN @ |-> [@[k] EXCEPT !.moles = moles]]]

\* Solute.set_moles on one component
set_moles(sol, solute, moles) ==
    [sol EXCEPT !.comps[solute].moles = moles]

\* the unit strings tested by set_amount's if / elif chain
SetUnits == {"mol", "mol/L", "mol/kg", "g/L", "fraction", "kg"}

\* the mole count a branch of set_amount computes, or the exception
set_amount_moles(sol, solute, amount, unit) ==
    CASE unit = "mol" -> Num(amount)
      [] unit = "mol/L" -> PyTimes(Num(amount), get_volume(sol))
      [] unit = "mol/kg" -> PyTimes(Num(amount), get_solvent_mass(sol))
      [] unit = "g/L" ->
            \* the name molecular_weight is not defined in set_amount
            Raise("NameError")
      [] unit = "fraction" ->
            PyTimes(Num(amount),
                    PyAdd(Num(get_total_moles_solute(sol)), get_moles_water(sol)))
      [] unit = "kg" ->
            PyTimes(PyDiv(Num(amount), Num(get_molecular_weight(sol, solute))),
                    Num(QInt(1000)))

\* set_moles followed by a new self.volume from the mass and the density
store_moles_RecomputesVolume(sol, solute, r) ==
    IF IsRaise(r) THEN [res |-> r, sol |-> sol]
    ELSE [res |-> None,
          sol |-> [set_moles(sol, solute, r.val) EXCEPT !.volume =
                      Num(QMul(QDiv(get_mass(set_moles(sol, solute, r.val)), sol.density),
                               QInt(1000)))]]

\* self.components[solute].set_moles(r) unless computing r raised
store_moles(sol, solute, r) ==
    IF IsRaise(r) THEN [res |-> r, sol |-> sol]
    ELSE [res |-> None, sol |-> set_moles(sol, solute, r.val)]

\* Solution.set_amount for a unit of its if / elif chain: the outcome and
\* the Solution afterwards
set_amount_known(sol, solute, amount, unit) ==
    IF solute \notin DOMAIN sol.comps THEN [res |-> Raise("KeyError"), sol |-> sol]
    ELSE store_moles(sol, solute, set_amount_moles(sol, solute, amount, unit))

\* set_amount whose else branch stores the amount as moles
set_amount_StoresOnInvalidUnit(sol, solute, amount, unit) ==
    IF unit \in SetUnits THEN set_amount_known(sol, solute, amount, unit)
    ELSE [res |-> None, sol |-> set_moles(sol, solute, amount)]

\* Solution.set_amount: any other unit prints a message and returns None
set_amount(sol, solute, amount, unit) ==
    IF unit \in SetUnits THEN set_amount_known(sol, solute, amount, unit)
    ELSE [res |-> None, sol |-> sol]

----------------------------------------------------------------------------
(* class Solution: construction                                            *)

\* a solute descriptor [formula, molecular_weight, amount, unit]; the unit
\* is 'kg' when the list stops after the amount (add_solute's default)
Desc(formula, mw, amount, unit) ==
    [formula |-> formula, mw |-> mw, amount |-> amount, unit |-> unit,
     parameters |-> "default"]
Desc3(formula, mw, amount) == Desc(formula, mw, amount, "kg")

\* the mole count a branch of add_solute computes, None when no branch
\* matches the unit, or the exception
add_solute_moles(sol, molecular_weight, amount, unit) ==
    CASE unit = "mol" -> Num(amount)
      [] unit = "mol/L" ->
            \* the name temperature is not defined in add_solute
            Raise("NameError")
      [] unit = "mol/kg" -> PyTimes(Num(amount), get_solvent_mass(sol))
      [] unit = "g/L" ->
            PyTimes(PyDiv(Num(amount), Num(molecular_weight)), get_volume(sol))
      [] unit = "kg" -> PyDiv(Num(QMul(amount, QInt(1000))), Num(molecular_weight))
      [] OTHER -> None

\* self.components.update({formula: Solute(formula, molecular_weight, moles)})
add_solute_store(sol, formula, molecular_weight, moles, parameters) ==
    IF IsRaise(moles) THEN moles
    ELSE IF moles.kind = "none"
    THEN [kind |-> "sol", sol |-> sol, printed |-> <<"Invalid unit specified for amount">>]
    ELSE [kind |-> "sol", printed |-> charge_of(Chars(formula)).printed,
          sol |-> DictUpdate(sol, formula,
                             Solute__init__(formula, molecular_weight, moles.val,
                                            parameters))]

\* Solution.add_solute: raises, or returns None with the Solution afterwards
add_solute(sol, formula, molecular_weight, amount, unit, parameters) ==
    add_solute_store(sol, formula, molecular_weight,
                     add_solute_moles(sol, molecular_weight, amount, unit),
                     parameters)

RECURSIVE add_solutes(_, _)
RECURSIVE add_solutes_rest(_, _)
\* the loop "for item in solutes: self.add_solute(*item)"
add_solutes(sol, solutes) ==
    IF solutes = <<>> THEN [kind |-> "sol", sol |-> sol]
    ELSE add_solutes_rest(add_solute(sol, Head(solutes).formula, Head(solutes).mw,
                                     Head(solutes).amount, Head(solutes).unit,
                                     Head(solutes).parameters),
                          Tail(solutes))

\* the remaining iterations, unless add_solute raised
add_solutes_rest(r, solutes) ==
    IF IsRaise(r) THEN r ELSE add_solutes(r.sol, solutes)

\* the test "not name == 'H2O' or name == 'water'" of Solution.__init__ and
\* of mix: not binds tighter than or
non_water_test(name) == (~(name = "H2O")) \/ name = "water"

\* the attributes of a Solution before any component is added
empty_solution(solvent_name, density, temperature, pressure) ==
    [density |-> density, temperature |-> temperature,
     pressure |-> pressure, keys |-> <<>>,
     comps |-> [k \in {} |-> Solute__init__("H2O", QOne, QZero, "default")],
     solvent_name |-> solvent_name,
     volume |-> None, ionic_strength |-> None]

\* self.volume = v and the non-water error, unless computing v raised
init_volume(self, v) ==
    IF IsRaise(v) THEN v
    ELSE [kind |-> "sol", sol |-> [self EXCEPT !.volume = v],
          log |-> IF non_water_test(self.solvent_name)
                  THEN <<"Non-aqueous solvent detected">> ELSE <<>>]

\* self.volume = self.get_mass() / density * 1000, unless adding raised
init_populated(r, density) ==
    IF IsRaise(r) THEN r
    ELSE init_volume(r.sol, PyTimes(PyDiv(Num(get_mass(r.sol)), Num(density)),
                                    Num(QInt(1000))))

\* Solution.__init__(solutes, solvent, density, temperature, pressure): the
\* Solution built and the errors logged, or the exception
Solution__init__(solutes, solvent, density, temperature, pressure) ==
    init_populated(
        add_solutes(empty_solution(solvent.formula, density, temperature, pressure),
                    <<solvent>> \o solutes),
        density)

----------------------------------------------------------------------------
(* Symbolic reals.  Sym(f, args) is the value of the correlation f at the  *)
(* numbers args, kept unevaluated; a correlation value that is exactly     *)
(* zero is the number zero.  Two Sym values are taken to be equal exactly  *)
(* when f and args are.                                                    *)

Sym(f, args) == [kind |-> "sym", f |-> f, args |-> args]

\* kelvin(temp_celsius)
kelvin(temp_celsius) == QAdd(temp_celsius, Dec(27315, -2))

\* water_dielectric_constant returns None outside 273 K .. 372 K
dielectric_defined(temperature) ==
    /\ ~QLt(kelvin(temperature), QInt(273))
    /\ ~QLt(QInt(372), kelvin(temperature))

\* water_dielectric_constant(temperature): the value of the quadratic fit,
\* or None and the error logged
water_dielectric_constant(temperature) ==
    IF dielectric_defined(temperature)
    THEN [res |-> Sym("dielectric", <<temperature>>), log |-> <<>>]
    ELSE [res |-> None, log |-> <<"exceeds valid range of data">>]

\* water_density(temperature, pressure): 999.65 + 0.20438 * temperature
\* - 6.1744e-2 * temperature ** 1.5, a complex number below 0 degrees; no
\* argument is tested and pressure is not used
water_density(temperature, pressure) ==
    IF QLt(temperature, QZero)
    THEN [res |-> [kind |-> "complex", f |-> "density", args |-> <<temperature>>],
          log |-> <<>>]
    ELSE [res |-> Sym("density", <<temperature>>), log |-> <<>>]

\* water_viscosity_dynamic(temperature, pressure): None and the error
\* logged outside the tested ranges, else the value computed from
\* kelvin(temperature) and water_density, or TypeError (math.exp of a
\* complex number)
water_viscosity_dynamic(temperature, pressure) ==
    IF QLt(kelvin(temperature), QInt(273)) \/ QLt(QInt(1073), kelvin(temperature))
    THEN [res |-> None, log |-> <<"temperature exceeds valid range of NIST equation">>]
    ELSE IF QLt(pressure, QZero) \/ QLt(QInt(100000000), pressure)
    THEN [res |-> None, log |-> <<"pressure exceeds valid range of NIST equation">>]
    ELSE IF water_density(temperature, pressure).res.kind = "complex"
    THEN [res |-> Raise("TypeError"), log |-> <<>>]
    ELSE [res |-> Sym("viscosity", <<temperature>>), log |-> <<>>]

\* water_debye_parameter_activity(temperature): the positive number
\* 1.8246e6 * (dielectric * kelvin) ** -1.5, or TypeError (None * float)
water_debye_parameter_activity(temperature) ==
    IF dielectric_defined(temperature) THEN Sym("A", <<temperature>>)
    ELSE Raise("TypeError")

\* water_debye_parameter_osmotic(temperature): a positive number, or
\* TypeError (None * float)
water_debye_parameter_osmotic(temperature) ==
    IF dielectric_defined(temperature) THEN Sym("Aphi", <<temperature>>)
    ELSE Raise("TypeError")

\* - A(temperature) * z2 * f(ionic_strength) for one of the three
\* correlations f: the exception, zero, or the value kept as Sym(f, args)
debye_form(f, args, ionic_strength, z2, temperature) ==
    IF IsRaise(water_debye_parameter_activity(temperature))
    THEN water_debye_parameter_activity(temperature)
    ELSE IF QSign(ionic_strength) < 0 THEN Raise("ValueError")
    ELSE IF QIsZero(z2) \/ QIsZero(ionic_strength) THEN Num(QZero)
    ELSE Sym(f, args)

\* - A(temperature) * valence ** 2 * math.sqrt(ionic_strength),
\* that is - A(temperature) * sqrt(valence ** 4 * ionic_strength)
get_activity_coefficient_debyehuckel(ionic_strength, valence, temperature) ==
    debye_form("debyehuckel",
               <<temperature,
                 QMul(QMul(QMul(valence, valence), QMul(valence, valence)),
                      ionic_strength)>>,
               ionic_strength, QMul(valence, valence), temperature)

\* - A(temperature) * valence ** 2 * sqrt(I) / (1 + sqrt(I))
get_activity_coefficient_guntelberg(ionic_strength, valence, temperature) ==
    debye_form("guntelberg", <<temperature, QMul(valence, valence), ionic_strength>>,
               ionic_strength, QMul(valence, valence), temperature)

\* - A(temperature) * valence ** 2 * (sqrt(I) / (1 + sqrt(I)) - 0.2 * I)
get_activity_coefficient_davies(ionic_strength, valence, temperature) ==
    debye_form("davies", <<temperature, QMul(valence, valence), ionic_strength>>,
               ionic_strength, QMul(valence, valence), temperature)

\* the errors raised while evaluating the TCPC expressions, b2I = b^2 I:
\* 2/b and 1 + b sqrt(I) as divisors, math.log(1 + b sqrt(I)), the
\* stoichiometric sum as a divisor, 0.0 raised to a negative power
TCPC_error(ionic_strength, b, n, nu, b2I) ==
    IF QSign(b) < 0 /\ b2I = QOne THEN "ZeroDivisionError"
    ELSE IF QIsZero(b) THEN "ZeroDivisionError"
    ELSE IF QSign(b) < 0 /\ QLt(QOne, b2I) THEN "ValueError"
    ELSE IF QIsZero(nu) THEN "ZeroDivisionError"
    ELSE IF QIsZero(ionic_strength) /\ QSign(n) < 0 THEN "ZeroDivisionError"
    ELSE "none"

\* the TCPC activity coefficient given the outcome e of its expressions
TCPC_value(e, args, temperature) ==
    IF IsRaise(water_debye_parameter_osmotic(temperature))
    THEN water_debye_parameter_osmotic(temperature)
    ELSE IF e # "none" THEN Raise(e)
    ELSE Sym("TCPC", args)

\* math.exp(PDH + SV), a positive number
get_activity_coefficient_TCPC(ionic_strength, S, b, n, valence, counter_valence, stoich_coeff, counter_stoich_coeff, temperature) ==
    TCPC_value(TCPC_error(ionic_strength, b, n, QAdd(stoich_coeff, counter_stoich_coeff),
                          QMul(QMul(b, b), ionic_strength)),
               <<ionic_strength, S, b, n, QMul(valence, counter_valence),
                 QAdd(stoich_coeff, counter_stoich_coeff), temperature>>,
               temperature)

\* the errors raised while evaluating the TCPC osmotic expressions
phiTCPC_error(ionic_strength, b, n, nu, b2I) ==
    IF QSign(b) < 0 /\ b2I = QOne THEN "ZeroDivisionError"
    ELSE IF QIsZero(nu) THEN "ZeroDivisionError"
    ELSE IF n = Dec(-5, -1) THEN "ZeroDivisionError"
    ELSE IF QIsZero(ionic_strength) /\ QSign(n) < 0 THEN "ZeroDivisionError"
    ELSE "none"

\* the TCPC osmotic coefficient given the outcome e of its expressions
phiTCPC_value(e, args, temperature) ==
    IF IsRaise(water_debye_parameter_osmotic(temperature))
    THEN water_debye_parameter_osmotic(temperature)
    ELSE IF e # "none" THEN Raise(e)
    ELSE Sym("phiTCPC", args)

\* 1 - term2 + term3
get_osmotic_coefficient_TCPC(ionic_strength, S, b, n, valence, counter_valence, stoich_coeff, counter_stoich_coeff, temperature) ==
    phiTCPC_value(phiTCPC_error(ionic_strength, b, n,
                                QAdd(stoich_coeff, counter_stoich_coeff),
                                QMul(QMul(b, b), ionic_strength)),
                  <<ionic_strength, S, b, n, QMul(valence, counter_valence),
                    QAdd(stoich_coeff, counter_stoich_coeff), temperature>>,
                  temperature)

----------------------------------------------------------------------------
(* class Solution: ionic strength and the activity-coefficient dispatcher  *)

\* the loop of get_ionic_strength over the keys (the volume is not zero):
\* 0.5 * get_amount(solute, 'mol/L') * valence ** 2
RECURSIVE ionic_sum(_, _, _)
ionic_sum(sol, keys, ionic_strength) ==
    IF keys = <<>> THEN ionic_strength
    ELSE ionic_sum(sol, Tail(keys),
            QAdd(ionic_strength,
                 QMul(QMul(Dec(5, -1), QDiv(get_moles(sol, Head(keys)), sol.volume.val)),
                      QInt(sol.comps[Head(keys)].charge * sol.comps[Head(keys)].charge))))

\* twice the value: the sum without the factor 0.5
ionic_both_NoHalf(I) == [res |-> Num(QMul(QInt(2), I)), attr |-> Num(QMul(QInt(2), I))]

\* the value returned and the attribute left behind are the same number
ionic_both(I) == [res |-> Num(I), attr |-> Num(I)]

\* get_ionic_strength returning the attribute left by an earlier call
get_ionic_strength_Cached(sol) ==
    IF sol.ionic_strength.kind = "num"
    THEN [res |-> sol.ionic_strength, attr |-> sol.ionic_strength]
    ELSE IF sol.keys = <<>> THEN ionic_both(QZero)
    ELSE IF IsRaise(get_volume(sol))
    THEN [res |-> get_volume(sol), attr |-> Num(QZero)]
    ELSE IF QIsZero(sol.volume.val)
    THEN [res |-> Raise("ZeroDivisionError"), attr |-> Num(QZero)]
    ELSE ionic_both(ionic_sum(sol, sol.keys, QZero))

\* Solution.get_ionic_strength: the value returned (or the exception), and
\* the attribute self.ionic_strength it leaves behind
get_ionic_strength(sol) ==
    IF sol.keys = <<>> THEN ionic_both(QZero)
    ELSE IF IsRaise(get_volume(sol))
    THEN [res |-> get_volume(sol), attr |-> Num(QZero)]
    ELSE IF QIsZero(sol.volume.val)
    THEN [res |-> Raise("ZeroDivisionError"), attr |-> Num(QZero)]
    ELSE ionic_both(ionic_sum(sol, sol.keys, QZero))

\* the chain with < in place of <=
ActivityRegime_StrictBounds(I, has_TCPC) ==
    IF QLt(I, Dec(5, -3)) THEN "Debye-Huckel"
    ELSE IF QLt(I, Dec(1, -1)) THEN "Guntelberg"
    ELSE IF QLt(I, Dec(5, -1)) THEN "Davies"
    ELSE IF has_TCPC THEN "TCPC"
    ELSE "unit"

\* the chain whose Davies branch has no upper limit when no TCPC
\* parameters are set
ActivityRegime_DaviesFallback(I, has_TCPC) ==
    IF QLeq(I, Dec(5, -3)) THEN "Debye-Huckel"
    ELSE IF QLeq(I, Dec(1, -1)) THEN "Guntelberg"
    ELSE IF QLeq(I, Dec(5, -1)) \/ ~has_TCPC THEN "Davies"
    ELSE "TCPC"

\* the branch taken by the if / elif chain of get_activity_coefficient
ActivityRegime(I, has_TCPC) ==
    IF QLeq(I, Dec(5, -3)) THEN "Debye-Huckel"
    ELSE IF QLeq(I, Dec(1, -1)) THEN "Guntelberg"
    ELSE IF QLeq(I, Dec(5, -1)) THEN "Davies"
    ELSE IF has_TCPC THEN "TCPC"
    ELSE "unit"

\* the return statement of the branch taken
activity_branch(I, regime, ion, temperature) ==
    CASE regime = "Debye-Huckel" ->
            \* called as (ionic_strength, temperature): the second
            \* positional parameter is valence, temperature stays 25
            get_activity_coefficient_debyehuckel(I, temperature, QInt(25))
      [] regime = "Guntelberg" ->
            get_activity_coefficient_guntelberg(I, QInt(ion.charge), temperature)
      [] regime = "Davies" ->
            get_activity_coefficient_davies(I, QInt(ion.charge), temperature)
      [] regime = "TCPC" ->
            get_activity_coefficient_TCPC(I, ion.parameters_TCPC["S"],
                ion.parameters_TCPC["b"], ion.parameters_TCPC["n"],
                ion.parameters_TCPC["z_plus"], ion.parameters_TCPC["z_minus"],
                ion.parameters_TCPC["nu_plus"], ion.parameters_TCPC["nu_minus"],
                temperature)
      [] regime = "unit" -> Num(QOne)

\* get_ionic_strength writing its sum to self.volume
activity_dispatch_WritesVolume(sol, solute, temperature, Ir, regime) ==
    IF IsRaise(Ir.res)
    THEN [res |-> Ir.res, log |-> "none", sol |-> [sol EXCEPT !.volume = Ir.attr]]
    ELSE [res |-> activity_branch(Ir.res.val, regime, sol.comps[solute], temperature),
          log |-> regime, sol |-> [sol EXCEPT !.volume = Ir.attr]]

\* the dispatch on the ionic strength Ir returned by get_ionic_strength
activity_dispatch(sol, solute, temperature, Ir, regime) ==
    IF IsRaise(Ir.res)
    THEN [res |-> Ir.res, log |-> "none",
          sol |-> [sol EXCEPT !.ionic_strength = Ir.attr]]
    ELSE [res |-> activity_branch(Ir.res.val, regime, sol.comps[solute], temperature),
          log |-> regime,
          sol |-> [sol EXCEPT !.ionic_strength = Ir.attr]]

\* the regime for the ionic strength Ir ("none" when computing it raised)
regime_of(sol, solute, Ir) ==
    IF IsRaise(Ir.res) THEN "none"
    ELSE ActivityRegime(Ir.res.val, DOMAIN sol.comps[solute].parameters_TCPC # {})

\* Solution.get_activity_coefficient: the outcome, the message logged for
\* the branch taken, and the Solution afterwards
get_activity_coefficient(sol, solute, temperature) ==
    IF solute \notin DOMAIN sol.comps
    THEN [res |-> Raise("KeyError"), log |-> "none", sol |-> sol]
    ELSE activity_dispatch(sol, solute, temperature, get_ionic_strength(sol),
                           regime_of(sol, solute, get_ionic_strength(sol)))

----------------------------------------------------------------------------
(* Logarithms.  A sum of natural logarithms and correlation values is kept *)
(* as a linear combination with rational coefficients of the atoms         *)
(* <<"one", <<>>>> (the number 1), <<"ln", <<p>>>> (the logarithm of a     *)
(* prime p) and <<f, args>> (a correlation value); such a combination is   *)
(* zero exactly when every coefficient is.                                 *)

LCZero == [a \in {} |-> QZero]
LCAtom(a) == [x \in {a} |-> QOne]
LCCoef(x, a) == IF a \in DOMAIN x THEN x[a] ELSE QZero
LCAdd(x, y) ==
    [a \in {c \in DOMAIN x \cup DOMAIN y : ~QIsZero(QAdd(LCCoef(x, c), LCCoef(y, c)))} |->
        QAdd(LCCoef(x, a), LCCoef(y, a))]
LCScale(q, x) == IF QIsZero(q) THEN LCZero ELSE [a \in DOMAIN x |-> QMul(q, x[a])]
LCSub(x, y) == LCAdd(x, LCScale(QInt(-1), y))

\* the integer square root
Root(n) == CHOOSE r \in 1..n : r * r <= n /\ (r + 1) * (r + 1) > n

\* the least prime factor of n > 1: the least factor up to the root, or n
LeastFactor(n) ==
    IF \E d \in 2..Root(n) : n % d = 0
    THEN CHOOSE d \in 2..Root(n) : n % d = 0 /\ \A c \in 2..(d - 1) : n % c # 0
    ELSE n

\* the logarithm of a positive integer as the sum over its prime factors
\* (ln n = ln p + ln (n / p) for the least prime factor p of n)
RECURSIVE LnInt(_)
LnInt(n) ==
    IF n = 1 THEN LCZero
    ELSE LCAdd(LCAtom(<<"ln", <<QInt(LeastFactor(n))>>>>), LnInt(n \div LeastFactor(n)))

\* the logarithm of a positive rational (n / d) * 10 ^ e
LnQ(q) ==
    LCAdd(LCSub(LnInt(q[1]), LnInt(q[2])),
          LCScale(QInt(q[3]), LCAdd(LCAtom(<<"ln", <<QInt(2)>>>>),
                                    LCAtom(<<"ln", <<QInt(5)>>>>))))

\* the sign of a correlation value: the TCPC value is an exponential; the
\* limiting law and Guntelberg values are -A z^2 (..) with A, z^2, I > 0,
\* and so is the Davies value for 0 < I <= 1
SymSign(x) == IF x.f = "TCPC" THEN 1 ELSE -1

\* g * c for an activity coefficient g and a concentration c
PyMul(g, c) ==
    IF IsRaise(g) THEN g
    ELSE IF IsRaise(c) THEN c
    ELSE IF g.kind = "num" THEN Num(QMul(g.val, c.val))
    ELSE IF QIsZero(c.val) THEN Num(QZero)
    ELSE [kind |-> "prod", sym |-> g, q |-> c.val]

\* math.log(x): ValueError unless x > 0; the result as a combination
math_log(x) ==
    CASE IsRaise(x) -> x
      [] x.kind = "num" ->
            IF QSign(x.val) > 0 THEN [kind |-> "lc", lc |-> LnQ(x.val)]
            ELSE Raise("ValueError")
      [] x.kind = "prod" ->
            IF SymSign(x.sym) * QSign(x.q) > 0
            THEN [kind |-> "lc",
                  lc |-> LCAdd(LCAtom(<<"lnTCPC", x.sym.args>>), LnQ(x.q))]
            ELSE Raise("ValueError")
      [] x.kind = "exp" -> [kind |-> "lc", lc |-> x.arg]

----------------------------------------------------------------------------
(* class Solution: activities                                              *)

\* get_osmotic_coefficient_TCPC at the ionic strength Ir with parameters p
osmotic_TCPC(sol, Ir, p, temperature) ==
    [sol |-> [sol EXCEPT !.ionic_strength = Ir.attr],
     log |-> <<>>,
     res |-> IF IsRaise(Ir.res) THEN Ir.res
             ELSE get_osmotic_coefficient_TCPC(Ir.res.val, p["S"], p["b"],
                      p["n"], p["z_plus"], p["z_minus"], p["nu_plus"],
                      p["nu_minus"], temperature)]

\* get_osmotic_coefficient raising when the parameters are not set
get_osmotic_coefficient_Raises(sol, solute, temperature) ==
    IF solute \notin DOMAIN sol.comps
    THEN [res |-> Raise("KeyError"), sol |-> sol, log |-> <<>>]
    ELSE IF DOMAIN sol.comps[solute].parameters_TCPC = {}
    THEN [res |-> Raise("KeyError"), sol |-> sol, log |-> <<>>]
    ELSE osmotic_TCPC(sol, get_ionic_strength(sol), sol.comps[solute].parameters_TCPC,
                      temperature)

\* Solution.get_osmotic_coefficient: the outcome, the error logged and the
\* Solution afterwards (get_ionic_strength is only called when TCPC
\* parameters are set)
get_osmotic_coefficient(sol, solute, temperature) ==
    IF solute \notin DOMAIN sol.comps
    THEN [res |-> Raise("KeyError"), sol |-> sol, log |-> <<>>]
    ELSE IF DOMAIN sol.comps[solute].parameters_TCPC = {}
    THEN [res |-> Num(QOne), sol |-> sol,
          log |-> <<"Cannot calculate water activity">>]
    ELSE osmotic_TCPC(sol, get_ionic_strength(sol), sol.comps[solute].parameters_TCPC,
                      temperature)

\* math.exp(- phi * c) for the osmotic coefficient phi
water_activity_exp(phi, c) ==
    [sol |-> phi.sol,
     log |-> phi.log,
     res |-> IF IsRaise(phi.res) THEN phi.res
             ELSE IF phi.res.kind = "num"
             THEN [kind |-> "exp",
                   arg |-> LCScale(QNeg(QMul(phi.res.val, c)), LCAtom(<<"one", <<>>>>))]
             ELSE [kind |-> "exp",
                   arg |-> LCScale(QNeg(c), LCAtom(<<phi.res.f, phi.res.args>>))]]

\* Solution.get_water_activity:
\* math.exp(- osmotic coefficient * 0.018015 * get_total_moles_solute())
get_water_activity(sol, solute, temperature) ==
    water_activity_exp(get_osmotic_coefficient(sol, solute, temperature),
                       QMul(Dec(18015, -6), get_total_moles_solute(sol)))

\* the loop of get_activity that finds the predominant non-solvent solute:
\* the first one with the largest mole count above zero
RECURSIVE predominant(_, _, _, _)
RECURSIVE predominant_LastWins(_, _, _, _)
\* the loop with "mass >= most": the last of several largest counts wins
predominant_LastWins(sol, keys, most, predominant_solute) ==
    IF keys = <<>> THEN [most |-> most, predominant_solute |-> predominant_solute]
    ELSE IF Head(keys) # sol.solvent_name /\ QLeq(most, get_moles(sol, Head(keys)))
    THEN predominant_LastWins(sol, Tail(keys), get_moles(sol, Head(keys)), Head(keys))
    ELSE predominant_LastWins(sol, Tail(keys), most, predominant_solute)

predominant(sol, keys, most, predominant_solute) ==
    IF keys = <<>> THEN [most |-> most, predominant_solute |-> predominant_solute]
    ELSE IF Head(keys) # sol.solvent_name /\ QLt(most, get_moles(sol, Head(keys)))
    THEN predominant(sol, Tail(keys), get_moles(sol, Head(keys)), Head(keys))
    ELSE predominant(sol, Tail(keys), most, predominant_solute)

\* the water branch without the test "most > 0"
get_activity_water_AlwaysOsmotic(sol, temperature, pr) ==
    [res |-> get_water_activity(sol, pr.predominant_solute, temperature).res,
     sol |-> get_water_activity(sol, pr.predominant_solute, temperature).sol]

\* the water branch of get_activity for the predominant solute pr
get_activity_water(sol, temperature, pr) ==
    IF QLt(QZero, pr.most)
    THEN [res |-> get_water_activity(sol, pr.predominant_solute, temperature).res,
          sol |-> get_water_activity(sol, pr.predominant_solute, temperature).sol]
    ELSE [res |-> Num(QOne), sol |-> sol]

\* the solute branch of get_activity: coefficient * get_amount(solute, 'mol/L')
get_activity_solute(sol, solute, g) ==
    [res |-> PyMul(g.res, get_amount(sol, solute, "mol/L")), sol |-> g.sol]

\* Solution.get_activity: the outcome and the Solution afterwards
get_activity(sol, solute, temperature) ==
    IF solute = "H2O" \/ solute = "water"
    THEN get_activity_water(sol, temperature, predominant(sol, sol.keys, QZero, ""))
    ELSE get_activity_solute(sol, solute,
                             get_activity_coefficient(sol, solute, temperature))

----------------------------------------------------------------------------
(* mix, entropy_mix and gibbsmix                                           *)

\* the list restricted to the formulas the two Solutions share
mix_solute_list_SharedOnly(Solution1, Solution2) ==
    SelectSeq(Solution1.keys, LAMBDA k : k \in DOMAIN Solution2.comps)

\* mix_solute_list: the formulas of Solution1 followed by those only in
\* Solution2
mix_solute_list(Solution1, Solution2) ==
    Solution1.keys \o SelectSeq(Solution2.keys, LAMBDA k : k \notin DOMAIN Solution1.comps)

\* the moles of a shared formula taken from Solution1 alone
mix_moles_FirstOnly(Solution1, Solution2, item) ==
    IF item \in DOMAIN Solution1.comps THEN Solution1.comps[item].moles
    ELSE Solution2.comps[item].moles

\* mix_moles of the three branches
mix_moles(Solution1, Solution2, item) ==
    IF item \in DOMAIN Solution1.comps /\ item \in DOMAIN Solution2.comps
    THEN QAdd(Solution1.comps[item].moles, Solution2.comps[item].moles)
    ELSE IF item \in DOMAIN Solution1.comps THEN Solution1.comps[item].moles
    ELSE Solution2.comps[item].moles

\* the entry [name, molecular weight, mix_moles, 'mol', parameters] appended
\* to component_list
mix_component(Solution1, Solution2, item) ==
    IF item \in DOMAIN Solution1.comps
    THEN [Desc(Solution1.comps[item].formula, Solution1.comps[item].mw,
               mix_moles(Solution1, Solution2, item), "mol")
             EXCEPT !.parameters = Solution1.comps[item].parameters]
    ELSE [Desc(Solution2.comps[item].formula, Solution2.comps[item].mw,
               mix_moles(Solution1, Solution2, item), "mol")
             EXCEPT !.parameters = Solution2.comps[item].parameters]

\* component_list: one entry per formula of mix_solute_list
component_list(Solution1, Solution2) ==
    [i \in 1..Len(mix_solute_list(Solution1, Solution2)) |->
        mix_component(Solution1, Solution2, mix_solute_list(Solution1, Solution2)[i])]

\* Blend.components[item].set_parameters_TCPC(..) with the parameters p
copy_TCPC(solute, p) ==
    set_parameters_TCPC(solute, p["S"], p["b"], p["n"], p["z_plus"], p["z_minus"],
                        p["nu_plus"], p["nu_minus"])

\* the loop that copies the TCPC parameters into the blend; the elif reads
\* Solution2.componenents, an attribute no Solution has
RECURSIVE copy_parameters(_, _, _)
copy_parameters(Blend, Solution1, keys) ==
    IF keys = <<>> THEN [kind |-> "sol", sol |-> Blend]
    ELSE IF Head(keys) \notin DOMAIN Solution1.comps THEN Raise("AttributeError")
    ELSE IF DOMAIN Solution1.comps[Head(keys)].parameters_TCPC # {}
    THEN copy_parameters(
             [Blend EXCEPT !.comps[Head(keys)] =
                 copy_TCPC(@, Solution1.comps[Head(keys)].parameters_TCPC)],
             Solution1, Tail(keys))
    ELSE copy_parameters(Blend, Solution1, Tail(keys))

\* the errors logged by the two solvent tests of mix
mix_log(Solution1, Solution2) ==
    (IF ~(Solution1.solvent_name = Solution2.solvent_name)
     THEN <<"different solvents">> ELSE <<>>)
    \o (IF non_water_test(Solution1.solvent_name)
        THEN <<"non-water solvents">> ELSE <<>>)

\* the copy loop on the Blend built, unless building it raised
mix_copy(Solution1, Solution2, Blend) ==
    [res |-> IF IsRaise(Blend) THEN Blend
             ELSE copy_parameters(Blend.sol, Solution1, Blend.sol.keys),
     \* with the error logged by Solution.__init__ for the blend
     log |-> mix_log(Solution1, Solution2)
             \o (IF non_water_test(Solution1.solvent_name)
                 THEN <<"Non-aqueous solvent detected">> ELSE <<>>)]

\* Blend = Solution(component_list, solvent, mix_dense)
mix_blend(Solution1, Solution2, solvent_mass, mix_dense) ==
    IF IsRaise(mix_dense)
    THEN [res |-> mix_dense, log |-> mix_log(Solution1, Solution2)]
    ELSE mix_copy(Solution1, Solution2,
                  Solution__init__(component_list(Solution1, Solution2),
                      Desc3(Solution1.solvent_name, QInt(18), solvent_mass.val),
                      mix_dense.val, QInt(25), QInt(101325)))

\* mix_dense = (get_mass() + get_mass()) / mix_vol * 1000
mix_density(Solution1, Solution2, solvent_mass, mix_vol) ==
    IF IsRaise(mix_vol)
    THEN [res |-> mix_vol, log |-> mix_log(Solution1, Solution2)]
    ELSE mix_blend(Solution1, Solution2, solvent_mass,
                   PyTimes(PyDiv(Num(QAdd(get_mass(Solution1), get_mass(Solution2))),
                                 mix_vol),
                           Num(QInt(1000))))

\* mix_vol = Solution1.get_volume() + Solution2.get_volume()
mix_volume(Solution1, Solution2, solvent_mass) ==
    IF IsRaise(solvent_mass)
    THEN [res |-> solvent_mass, log |-> mix_log(Solution1, Solution2)]
    ELSE mix_density(Solution1, Solution2, solvent_mass,
                     PyAdd(get_volume(Solution1), get_volume(Solution2)))

\* mix(Solution1, Solution2): the Solution returned or the exception, and
\* the errors logged
mix(Solution1, Solution2) ==
    mix_volume(Solution1, Solution2,
               PyAdd(get_solvent_mass(Solution1), get_solvent_mass(Solution2)))

\* CONST_R * kelvin(temperature) * x for a combination x
RT_times(temperature, x) ==
    IF x = LCZero \/ QIsZero(kelvin(temperature)) THEN Num(QZero)
    ELSE [kind |-> "lin", scale |-> kelvin(temperature), lc |-> x]

\* the inner loop of entropy_mix over one Solution: the sum of
\* moles * math.log(fraction) over the components of nonzero fraction
RECURSIVE entropy_terms(_, _, _)
RECURSIVE entropy_step(_, _, _, _)
RECURSIVE entropy_term(_, _, _, _)
entropy_terms(sol, keys, acc) ==
    IF keys = <<>> THEN [kind |-> "lc", lc |-> acc]
    ELSE entropy_step(sol, keys, acc, get_amount(sol, Head(keys), "fraction"))

\* the test "if not get_amount(solute, 'fraction') == 0"
entropy_step(sol, keys, acc, fr) ==
    IF IsRaise(fr) THEN fr
    ELSE IF QIsZero(fr.val) THEN entropy_terms(sol, Tail(keys), acc)
    ELSE entropy_term(sol, keys, acc, math_log(fr))

\* term_list[solution] += get_amount(solute, 'mol') * l
entropy_term(sol, keys, acc, l) ==
    IF IsRaise(l) THEN l
    ELSE entropy_terms(sol, Tail(keys),
                       LCAdd(acc, LCScale(get_moles(sol, Head(keys)), l.lc)))

\* the inner loop of gibbsmix over one Solution: the sum of
\* moles * math.log(get_activity(solute)), and the Solution afterwards
RECURSIVE gibbs_terms(_, _, _)
RECURSIVE gibbs_step(_, _, _, _)
RECURSIVE gibbs_term(_, _, _, _, _)
gibbs_terms(sol, keys, acc) ==
    IF keys = <<>> THEN [res |-> [kind |-> "lc", lc |-> acc], sol |-> sol]
    ELSE gibbs_step(sol, keys, acc, get_amount(sol, Head(keys), "fraction"))

\* the test "if not get_amount(solute, 'fraction') == 0"
gibbs_step(sol, keys, acc, fr) ==
    IF IsRaise(fr) THEN [res |-> fr, sol |-> sol]
    ELSE IF QIsZero(fr.val) THEN gibbs_terms(sol, Tail(keys), acc)
    ELSE gibbs_term(sol, keys, acc, get_activity(sol, Head(keys), QInt(25)).sol,
                    math_log(get_activity(sol, Head(keys), QInt(25)).res))

\* term_list[solution] += get_amount(solute, 'mol') * l
gibbs_term(sol, keys, acc, after, l) ==
    IF IsRaise(l) THEN [res |-> l, sol |-> after]
    ELSE gibbs_terms(after, Tail(keys),
                     LCAdd(acc, LCScale(get_moles(sol, Head(keys)), l.lc)))

\* the return statement of entropy_mix for the three entries of term_list
entropy_sum(temperature, t1, t2, tb) ==
    IF IsRaise(t1) THEN t1
    ELSE IF IsRaise(t2) THEN t2
    ELSE IF IsRaise(tb) THEN tb
    ELSE RT_times(temperature, LCSub(LCSub(tb.lc, t1.lc), t2.lc))

\* the loop over term_list, which has a single entry for Solution1 and
\* Solution2 when they are the same object
entropy_blend(ss, s1, s2, temperature, blend) ==
    IF IsRaise(blend) THEN blend
    ELSE IF s2 = s1
    THEN entropy_sum(temperature,
                     entropy_terms(ss[s1], ss[s1].keys, LCZero),
                     entropy_terms(ss[s1], ss[s1].keys, LCZero),
                     entropy_terms(blend.sol, blend.sol.keys, LCZero))
    ELSE entropy_sum(temperature,
                     entropy_terms(ss[s1], ss[s1].keys, LCZero),
                     entropy_terms(ss[s2], ss[s2].keys, LCZero),
                     entropy_terms(blend.sol, blend.sol.keys, LCZero))

\* entropy_mix(Solution1, Solution2, temperature) on the objects s1 and s2
\* of ss; term_list has one entry per object
entropy_mix(ss, s1, s2, temperature) ==
    entropy_blend(ss, s1, s2, temperature, mix(ss[s1], ss[s2]).res)

\* the return statement of gibbsmix for the three entries of term_list
gibbs_sum(ss, temperature, t1, t2, tb) ==
    IF IsRaise(tb.res) THEN [res |-> tb.res, sols |-> ss]
    ELSE [res |-> RT_times(temperature, LCSub(LCSub(tb.res.lc, t1.res.lc), t2.res.lc)),
          sols |-> ss]

\* the entry of the blend, after the entry t2 of Solution2
gibbs_dilute(ss, s2, temperature, blend, t1, t2) ==
    IF IsRaise(t2.res) THEN [res |-> t2.res, sols |-> [ss EXCEPT ![s2] = t2.sol]]
    ELSE gibbs_sum([ss EXCEPT ![s2] = t2.sol], temperature, t1, t2,
                   gibbs_terms(blend.sol, blend.sol.keys, LCZero))

\* the entry of Solution2 (none when it is the object Solution1), after the
\* entry t1 of Solution1
gibbs_concentrate(ss, s1, s2, temperature, blend, t1) ==
    IF IsRaise(t1.res) THEN [res |-> t1.res, sols |-> [ss EXCEPT ![s1] = t1.sol]]
    ELSE IF s2 = s1
    THEN gibbs_sum([ss EXCEPT ![s1] = t1.sol], temperature, t1, t1,
                   gibbs_terms(blend.sol, blend.sol.keys, LCZero))
    ELSE gibbs_dilute([ss EXCEPT ![s1] = t1.sol], s2, temperature, blend, t1,
                      gibbs_terms(ss[s2], ss[s2].keys, LCZero))

\* the loop over term_list on the blend returned by mix
gibbs_blend(ss, s1, s2, temperature, blend) ==
    IF IsRaise(blend) THEN [res |-> blend, sols |-> ss]
    ELSE gibbs_concentrate(ss, s1, s2, temperature, blend,
                           gibbs_terms(ss[s1], ss[s1].keys, LCZero))

\* gibbsmix(Solution1, Solution2, temperature) on the objects s1 and s2 of
\* ss: the outcome and the objects afterwards
gibbsmix(ss, s1, s2, temperature) ==
    gibbs_blend(ss, s1, s2, temperature, mix(ss[s1], ss[s2]).res)

----------------------------------------------------------------------------
(* The state: two Solution objects A and B, the last call with its         *)
(* outcome, the numbers of set_amount calls and of mixing calls made so    *)
(* far, and the dictionaries that Solutes hold as self.parameters.  A      *)
(* Solute stores a reference, so its parameters field is the identity of   *)
(* a dictionary and bags gives the content of each.                        *)

SIDs == {"A", "B"}

\* the dictionary objects: the one created for add_solute's default
\* argument parameters={} when the class is defined, and two that callers
\* create
BagIds == {"default", "dict1", "dict2"}

\* some Solute of a Solution holds the dictionary b as self.parameters
Referenced(b) ==
    \E s \in SIDs : \E k \in DOMAIN sols[s].comps : sols[s].comps[k].parameters = b

\* at most MaxSets calls of set_amount are explored
MaxSets == 1

\* at most MaxMixes calls of mix, entropy_mix and gibbsmix are explored
MaxMixes == 1

\* the unit strings handed to get_amount and set_amount
Units ==
    {"mol", "mmol", "mol/kg", "fraction", "mol/L", "mmol/L",
     "ng/L", "ug/L", "mg/L", "g/L", "kg/L", "ng", "ug", "mg", "g", "kg",
     "ppt", "ppb", "ppm", "mg/kg", "%", "g/g", "lbs"}

\* the amount units the specification lists as supported
SupportedUnits == Units \ {"lbs"}

\* the solvent descriptor ['H2O', 18, 0.9]: 50 mol of water
Water == Desc3("H2O", QInt(18), Dec(9, -1))
TemperatureDoc == QInt(25)

\* Solution(solutes, solvent) with the default density, temperature, pressure
NewSolution(solutes, solvent) ==
    Solution__init__(solutes, solvent, QInt(1000), TemperatureDoc, QInt(101325))

\* the solute lists of the Solutions under conversion: a salt given in the
\* default unit (kg), one given in mol, and an uncharged solute in mol/kg
AmountSoluteLists ==
    { <<Desc3("Na+", QInt(23), Dec(23, -3)), Desc3("Cl-", QInt(35), Dec(35, -3))>>,
      <<Desc("Na+", QInt(23), QInt(2), "mol"), Desc("SO4-2", QInt(96), QOne, "mol")>>,
      <<Desc("Urea", QInt(60), Dec(5, -1), "mol/kg")>> }

Built(results) == {r.sol : r \in {x \in results : x.kind = "sol"}}

InitAmount ==
    /\ \E a \in Built({NewSolution(l, Water) : l \in AmountSoluteLists}),
          b \in Built({NewSolution(<<>>, Water)}) :
            sols = [s \in SIDs |-> IF s = "A" THEN a ELSE b]
    /\ last = [op |-> "init"]
    /\ nset = 0
    /\ nmix = 0
    /\ bags = [b \in BagIds |-> [k \in {} |-> QZero]]

\* s.set_amount(solute, amount, unit)
SetAmount(s, solute, amount, unit) ==
    /\ nset < MaxSets
    /\ sols' = [sols EXCEPT ![s] = set_amount(sols[s], solute, amount, unit).sol]
    /\ last' = [op |-> "set_amount", sid |-> s, solute |-> solute,
                amount |-> amount, unit |-> unit,
                res |-> set_amount(sols[s], solute, amount, unit).res]
    /\ nset' = nset + 1
    /\ UNCHANGED <<nmix, bags>>

\* s.get_amount(solute, unit)
GetAmount(s, solute, unit) ==
    /\ last' = [op |-> "get_amount", sid |-> s, solute |-> solute, unit |-> unit,
                res |-> get_amount(sols[s], solute, unit)]
    /\ UNCHANGED <<sols, nset, nmix, bags>>

NextAmount ==
    \/ \E solute \in DOMAIN sols["A"].comps, amount \in {QZero, Dec(5, -1)}, unit \in Units :
          SetAmount("A", solute, amount, unit)
    \/ \E solute \in DOMAIN sols["A"].comps, unit \in Units :
          GetAmount("A", solute, unit)

Spec == InitAmount /\ [][NextAmount]_vars

----------------------------------------------------------------------------
(* The activity-coefficient dispatcher under changing concentrations       *)

\* the temperatures (Celsius) handed to get_activity_coefficient
Temperatures == {QInt(20), QInt(25)}

\* molar concentrations handed to set_amount(.., 'mol/L'); for a lone
\* monovalent ion the ionic strength is half the concentration
Concentrations ==
    {QZero, Dec(6, -3), Dec(1, -2), Dec(11, -3), Dec(2, -1), Dec(21, -2),
     QOne, Dec(11, -1)}

\* arguments (S, b, n, valence, counter_valence, stoich_coeff,
\* counter_stoich_coeff) of set_parameters_TCPC
TCPCParameterSets ==
    { <<Dec(167, -1), Dec(48, -1), Dec(66, -2), QOne, QInt(-1), QOne, QOne>>,
      <<Dec(25, -1), QInt(3), Dec(5, -1), QInt(2), QInt(-1), QOne, QInt(2)>> }

ActivitySoluteLists ==
    { <<Desc("Na+", QInt(23), QZero, "mol")>>,
      <<Desc("Mg+2", QInt(24), Dec(1, -1), "mol")>>,
      <<Desc3("Na+", QInt(23), Dec(23, -3)), Desc3("Cl-", QInt(35), Dec(35, -3))>> }

InitActivity ==
    /\ \E a \in Built({NewSolution(l, Water) : l \in ActivitySoluteLists}),
          b \in Built({NewSolution(<<>>, Water)}) :
            sols = [s \in SIDs |-> IF s = "A" THEN a ELSE b]
    /\ last = [op |-> "init"]
    /\ nset = 0
    /\ nmix = 0
    /\ bags = [b \in BagIds |-> [k \in {} |-> QZero]]

\* s.get_solute(solute).set_parameters_TCPC(*p)
SetParametersTCPC(s, solute, p) ==
    /\ sols' = [sols EXCEPT ![s].comps[solute] =
                    set_parameters_TCPC(@, p[1], p[2], p[3], p[4], p[5], p[6], p[7])]
    /\ last' = [op |-> "set_parameters_TCPC", sid |-> s, solute |-> solute]
    /\ UNCHANGED <<nset, nmix, bags>>

\* s.get_activity_coefficient(solute, temperature)
GetActivityCoefficient(s, solute, temperature) ==
    /\ sols' = [sols EXCEPT ![s] =
                    get_activity_coefficient(sols[s], solute, temperature).sol]
    /\ last' = [op |-> "get_activity_coefficient", sid |-> s, solute |-> solute,
                temperature |-> temperature,
                res |-> get_activity_coefficient(sols[s], solute, temperature).res,
                log |-> get_activity_coefficient(sols[s], solute, temperature).log]
    /\ UNCHANGED <<nset, nmix, bags>>

\* s.get_ionic_strength()
GetIonicStrength(s) ==
    /\ sols' = [sols EXCEPT ![s].ionic_strength = get_ionic_strength(sols[s]).attr]
    /\ last' = [op |-> "get_ionic_strength", sid |-> s,
                res |-> get_ionic_strength(sols[s]).res]
    /\ UNCHANGED <<nset, nmix, bags>>

\* s.get_activity(solute, temperature)
GetActivity(s, solute, temperature) ==
    /\ sols' = [sols EXCEPT ![s] = get_activity(sols[s], solute, temperature).sol]
    /\ last' = [op |-> "get_activity", sid |-> s, solute |-> solute,
                temperature |-> temperature,
                res |-> get_activity(sols[s], solute, temperature).res]
    /\ UNCHANGED <<nset, nmix, bags>>

\* s.get_osmotic_coefficient(solute, temperature)
GetOsmoticCoefficient(s, solute, temperature) ==
    /\ sols' = [sols EXCEPT ![s] =
                    get_osmotic_coefficient(sols[s], solute, temperature).sol]
    /\ last' = [op |-> "get_osmotic_coefficient", sid |-> s, solute |-> solute,
                temperature |-> temperature,
                res |-> get_osmotic_coefficient(sols[s], solute, temperature).res,
                log |-> get_osmotic_coefficient(sols[s], solute, temperature).log]
    /\ UNCHANGED <<nset, nmix, bags>>

\* s.get_water_activity(solute, temperature)
GetWaterActivity(s, solute, temperature) ==
    /\ sols' = [sols EXCEPT ![s] = get_water_activity(sols[s], solute, temperature).sol]
    /\ last' = [op |-> "get_water_activity", sid |-> s, solute |-> solute,
                temperature |-> temperature,
                res |-> get_water_activity(sols[s], solute, temperature).res,
                log |-> get_water_activity(sols[s], solute, temperature).log]
    /\ UNCHANGED <<nset, nmix, bags>>

\* the components of a Solution other than its solvent
NonSolvent(sol) == DOMAIN sol.comps \ {sol.solvent_name}

NextActivity ==
    \/ \E solute \in NonSolvent(sols["A"]), amount \in Concentrations :
          SetAmount("A", solute, amount, "mol/L")
    \/ \E solute \in NonSolvent(sols["A"]), p \in TCPCParameterSets :
          SetParametersTCPC("A", solute, p)
    \/ \E solute \in DOMAIN sols["A"].comps, temperature \in Temperatures :
          GetActivityCoefficient("A", solute, temperature)
    \/ GetIonicStrength("A")

SpecActivity == InitActivity /\ [][NextActivity]_vars

\* the activity of the solvent and the osmotic coefficient behind it
NextOsmotic ==
    \/ \E solute \in NonSolvent(sols["A"]), amount \in {QZero, QOne} :
          SetAmount("A", solute, amount, "mol/L")
    \/ \E solute \in NonSolvent(sols["A"]), p \in TCPCParameterSets :
          SetParametersTCPC("A", solute, p)
    \/ \E s \in SIDs : \E solute \in DOMAIN sols[s].comps :
          GetActivity(s, solute, TemperatureDoc)
    \/ \E solute \in NonSolvent(sols["A"]) :
          GetOsmoticCoefficient("A", solute, TemperatureDoc)
    \/ \E solute \in NonSolvent(sols["A"]) :
          GetWaterActivity("A", solute, TemperatureDoc)

SpecOsmotic == InitActivity /\ [][NextOsmotic]_vars

\* the largest number of components of a Solution that add_solute is
\* called on
MaxComponents == 2

\* formulas for every branch of the charge chain: a bare sign, a sign and a
\* digit 2..7, no sign, a sign and the digit 1, a magnitude above 7, and a
\* sign that is not trailing
ChargeFormulas ==
    {"Na+", "Cl-", "Mg+2", "SO4-2", "Al+3", "PO4-3", "Sn+4", "SiO4-4", "V+5",
     "P3O10-5", "Cr+6", "Fe(CN)6-6", "Mn+7", "X-7", "Urea", "Na+1", "Cl-1",
     "Os+8", "X-12", "Cu+2(aq)"}

\* the units add_solute documents, 'kg' being the default
AddUnits == {"mol/L", "mol/kg", "mol", "g/L", "kg"}

\* the descriptors handed to add_solute: every formula in mol, and one
\* solute in every documented unit and in a unit add_solute does not know
AddDescriptors ==
    {Desc(f, QInt(50), QOne, "mol") : f \in ChargeFormulas}
    \cup {Desc("Na+", QInt(23), Dec(23, -2), u) : u \in AddUnits \cup {"lb"}}

\* the solute lists handed to Solution(): none, one solute in each
\* documented unit and in a unit add_solute does not know, two solutes,
\* 0.0115 mol of Na+ with 0.0175 mol of Cl-, and one formula twice
ConstructSoluteLists ==
    {<<>>}
    \cup {<<Desc("Na+", QInt(23), Dec(23, -2), u)>> : u \in AddUnits \cup {"lb"}}
    \cup {<<Desc("Na+", QInt(23), Dec(1, -1), "mol"),
             Desc("Na+", QInt(23), Dec(2, -1), "mol")>>}
    \cup {<<Desc("Na+", QInt(23), Dec(1, -1), "mol"),
             Desc("Cl-", QInt(35), Dec(1, -1), "mol/kg")>>,
           <<Desc("Na+", QInt(23), Dec(115, -4), "mol"),
             Desc("Cl-", QInt(35), Dec(175, -4), "mol")>>}

\* s.add_solute(formula, molecular_weight, amount, unit); the Solution is
\* as it was when the call raises
AddSolute(s, d) ==
    /\ Len(sols[s].keys) < MaxComponents
    /\ sols' = [sols EXCEPT ![s] =
                    IF IsRaise(add_solute(@, d.formula, d.mw, d.amount, d.unit, d.parameters))
                    THEN @
                    ELSE add_solute(@, d.formula, d.mw, d.amount, d.unit,
                                    d.parameters).sol]
    /\ last' = [op |-> "add_solute", sid |-> s, d |-> d,
                res |-> add_solute(sols[s], d.formula, d.mw, d.amount, d.unit,
                                   d.parameters)]
    /\ UNCHANGED <<nset, nmix, bags>>

\* s = Solution(solutes, solvent); s is as it was when the call raises.
\* A dictionary that a descriptor names as its fifth element is created by
\* the caller for this call: it is empty and no Solute refers to it yet
Construct(s, solutes, solvent) ==
    /\ \A i \in DOMAIN solutes :
          solutes[i].parameters = "default" \/ ~Referenced(solutes[i].parameters)
    /\ sols' = [sols EXCEPT ![s] =
                    IF IsRaise(NewSolution(solutes, solvent)) THEN @
                    ELSE NewSolution(solutes, solvent).sol]
    /\ last' = [op |-> "Solution", sid |-> s, solutes |-> solutes,
                solvent |-> solvent, res |-> NewSolution(solutes, solvent)]
    /\ bags' = [b \in BagIds |->
                    IF b # "default" /\ \E i \in DOMAIN solutes : solutes[i].parameters = b
                    THEN [k \in {} |-> QZero] ELSE bags[b]]
    /\ UNCHANGED <<nset, nmix>>

NextConstruct ==
    \/ \E d \in AddDescriptors : AddSolute("A", d)
    \/ \E solutes \in ConstructSoluteLists :
          \E solvent \in {Water, Desc3("H2O", QInt(18), QOne)} :
             Construct("A", solutes, solvent)
    \/ GetIonicStrength("A")

SpecConstruct == InitAmount /\ [][NextConstruct]_vars

\* water_density(temperature, pressure)
WaterDensity(temperature, pressure) ==
    /\ last' = [op |-> "water_density", temperature |-> temperature,
                pressure |-> pressure,
                res |-> water_density(temperature, pressure).res,
                log |-> water_density(temperature, pressure).log]
    /\ UNCHANGED <<sols, nset, nmix, bags>>

\* water_viscosity_dynamic(temperature, pressure)
WaterViscosityDynamic(temperature, pressure) ==
    /\ last' = [op |-> "water_viscosity_dynamic", temperature |-> temperature,
                pressure |-> pressure,
                res |-> water_viscosity_dynamic(temperature, pressure).res,
                log |-> water_viscosity_dynamic(temperature, pressure).log]
    /\ UNCHANGED <<sols, nset, nmix, bags>>

\* water_dielectric_constant(temperature)
WaterDielectricConstant(temperature) ==
    /\ last' = [op |-> "water_dielectric_constant", temperature |-> temperature,
                res |-> water_dielectric_constant(temperature).res,
                log |-> water_dielectric_constant(temperature).log]
    /\ UNCHANGED <<sols, nset, nmix, bags>>

\* temperatures in Celsius below, at and above 273 K, 0 C, 74 C, 372 K and
\* 1073 K
WaterTemperatures ==
    {QInt(-5), Dec(-15, -2), Dec(-1, -1), QZero, QInt(25), QInt(74), QInt(80),
     Dec(9885, -2), QInt(100), Dec(79985, -2), QInt(900)}

\* pressures in Pa below, at and above 0 and 100,000,000
WaterPressures == {QInt(-1), QZero, QInt(101325), QInt(100000000), QInt(200000000)}

NextWater ==
    \/ \E temperature \in WaterTemperatures, pressure \in WaterPressures :
          WaterDensity(temperature, pressure)
    \/ \E temperature \in WaterTemperatures, pressure \in WaterPressures :
          WaterViscosityDynamic(temperature, pressure)
    \/ \E temperature \in WaterTemperatures : WaterDielectricConstant(temperature)

SpecWater == InitAmount /\ [][NextWater]_vars

----------------------------------------------------------------------------
(* Mixing two Solutions                                                    *)

\* (solutes, solvent) of the Solutions handed to mix: water alone, a
\* concentrated and a dilute salt solution, ethanol as the solvent, ethanol
\* as a solute in water, water under the name 'water', and water given
\* with another molar mass
MixSolutions ==
    { <<<<>>, Water>>,
      <<<<Desc3("Na+", QInt(23), Dec(23, -3)), Desc3("Cl-", QInt(35), Dec(35, -3))>>, Water>>,
      <<<<Desc("Na+", QInt(23), Dec(1, -2), "mol")>>, Water>>,
      <<<<>>, Desc3("EtOH", QInt(46), Dec(46, -2))>>,
      <<<<Desc("EtOH", QInt(46), QOne, "mol")>>, Water>>,
      <<<<>>, Desc3("water", QInt(18), Dec(9, -1))>>,
      <<<<>>, Desc3("H2O", QInt(20), Dec(9, -1))>> }

InitMix ==
    /\ \E a, b \in Built({NewSolution(l[1], l[2]) : l \in MixSolutions}) :
            sols = [s \in SIDs |-> IF s = "A" THEN a ELSE b]
    /\ last = [op |-> "init"]
    /\ nset = 0
    /\ nmix = 0
    /\ bags = [b \in BagIds |-> [k \in {} |-> QZero]]

\* the call op(s1, s2, ..) is the call made last, made again
Repeats(op, s1, s2) == last.op = op /\ last.s1 = s1 /\ last.s2 = s2

\* mix(s1, s2); a call made again right away is explored beyond MaxMixes
Mix(s1, s2) ==
    /\ nmix < MaxMixes \/ Repeats("mix", s1, s2)
    /\ last' = [op |-> "mix", s1 |-> s1, s2 |-> s2,
                rep |-> Repeats("mix", s1, s2),
                res |-> mix(sols[s1], sols[s2]).res,
                log |-> mix(sols[s1], sols[s2]).log]
    /\ nmix' = IF Repeats("mix", s1, s2) THEN nmix ELSE nmix + 1
    /\ UNCHANGED <<sols, nset, bags>>

\* entropy_mix(s1, s2, temperature)
EntropyMix(s1, s2, temperature) ==
    /\ \/ nmix < MaxMixes
       \/ Repeats("entropy_mix", s1, s2) /\ last.temperature = temperature
    /\ last' = [op |-> "entropy_mix", s1 |-> s1, s2 |-> s2, temperature |-> temperature,
                rep |-> Repeats("entropy_mix", s1, s2) /\ last.temperature = temperature,
                res |-> entropy_mix(sols, s1, s2, temperature)]
    /\ nmix' = IF Repeats("entropy_mix", s1, s2) /\ last.temperature = temperature
               THEN nmix ELSE nmix + 1
    /\ UNCHANGED <<sols, nset, bags>>

\* gibbsmix(s1, s2, temperature)
GibbsMix(s1, s2, temperature) ==
    /\ \/ nmix < MaxMixes
       \/ Repeats("gibbsmix", s1, s2) /\ last.temperature = temperature
    /\ sols' = gibbsmix(sols, s1, s2, temperature).sols
    /\ last' = [op |-> "gibbsmix", s1 |-> s1, s2 |-> s2,
                temperature |-> temperature,
                rep |-> Repeats("gibbsmix", s1, s2) /\ last.temperature = temperature,
                res |-> gibbsmix(sols, s1, s2, temperature).res]
    /\ nmix' = IF Repeats("gibbsmix", s1, s2) /\ last.temperature = temperature
               THEN nmix ELSE nmix + 1
    /\ UNCHANGED <<nset, bags>>

NextMix ==
    \/ \E s \in SIDs, p \in {<<Dec(167, -1), Dec(48, -1), Dec(66, -2), QOne, QInt(-1), QOne, QOne>>} :
          \E solute \in NonSolvent(sols[s]) : SetParametersTCPC(s, solute, p)
    \/ \E s1, s2 \in SIDs : Mix(s1, s2)
    \/ \E s1, s2 \in SIDs, temperature \in Temperatures : EntropyMix(s1, s2, temperature)
    \/ \E s1, s2 \in SIDs, temperature \in Temperatures : GibbsMix(s1, s2, temperature)

SpecMix == InitMix /\ [][NextMix]_vars

----------------------------------------------------------------------------
(* Custom parameters                                                       *)

\* s.get_solute(solute).add_parameter(id, value)
AddParameter(s, solute, id, value) ==
    /\ bags' = add_parameter(bags, sols[s].comps[solute], id, value)
    /\ last' = [op |-> "add_parameter", sid |-> s, solute |-> solute,
                id |-> id, value |-> value]
    /\ UNCHANGED <<sols, nset, nmix>>

\* s = mix(s1, s2); s is as it was when the call raises
MixAssign(s, s1, s2) ==
    /\ nmix < MaxMixes
    /\ sols' = [sols EXCEPT ![s] =
                    IF mix(sols[s1], sols[s2]).res.kind = "sol"
                    THEN mix(sols[s1], sols[s2]).res.sol ELSE @]
    /\ last' = [op |-> "mix", sid |-> s, s1 |-> s1, s2 |-> s2,
                res |-> mix(sols[s1], sols[s2]).res,
                log |-> mix(sols[s1], sols[s2]).log]
    /\ nmix' = nmix + 1
    /\ UNCHANGED <<nset, bags>>

\* Solutions built without a parameters argument, with one dictionary, and
\* with a dictionary for each of two solutes; parameters added to any
\* Solute of either Solution; either Solution replaced by a mix
NextParameters ==
    \/ \E s \in SIDs :
          \E solutes \in
                {<<Desc("Na+", QInt(23), Dec(1, -1), "mol")>>,
                 <<[Desc("Na+", QInt(23), Dec(1, -1), "mol") EXCEPT !.parameters = "dict1"]>>,
                 <<[Desc("Na+", QInt(23), Dec(1, -1), "mol") EXCEPT !.parameters = "dict1"],
                   [Desc("Cl-", QInt(35), Dec(1, -1), "mol") EXCEPT !.parameters = "dict2"]>>} :
             Construct(s, solutes, Water)
    \/ \E s \in SIDs : \E solute \in DOMAIN sols[s].comps :
          AddParameter(s, solute, "diffusion_coeff", QOne)
    \/ \E s, s1, s2 \in SIDs : MixAssign(s, s1, s2)

SpecParameters == InitAmount /\ [][NextParameters]_vars

----------------------------------------------------------------------------
(* Properties of the conversion engine                                     *)

\* the mole counts of every component of every Solution
AllMoles(ss) == [s \in SIDs |-> [k \in DOMAIN ss[s].comps |-> ss[s].comps[k].moles]]

\* C1: for every solute s, supported unit u and value v >= 0, set_amount(s, v, u)
\* followed by get_amount(s, u) returns v.
C1_RoundTrip ==
    [][(/\ last.op = "set_amount"
        /\ last'.op = "get_amount"
        /\ last'.sid = last.sid /\ last'.solute = last.solute /\ last'.unit = last.unit
        /\ last.unit \in SupportedUnits)
       => (last'.res.kind = "num" /\ last'.res.val = last.amount)]_vars

\* C2: with an unrecognized unit string get_amount returns no number (None) and
\* set_amount leaves every mole count of every Solution as it was.
C2_InvalidUnit ==
    [][/\ (last'.op = "get_amount" /\ last'.unit \notin SupportedUnits)
            => last'.res.kind = "none"
       /\ (last'.op = "set_amount" /\ last'.unit \notin SupportedUnits)
            => (last'.res.kind = "none" /\ AllMoles(sols') = AllMoles(sols))]_vars

\* set_amount was called with 'lbs' and an amount that differs from the
\* named solute's mole count
C2_Witness ==
    /\ last.op = "set_amount"
    /\ last.unit = "lbs"
    /\ sols[last.sid].comps[last.solute].moles # last.amount

----------------------------------------------------------------------------
(* Properties of the activity-coefficient dispatcher                       *)

\* the ionic strength of the Solution the last call was made on
LastI == get_ionic_strength(sols[last.sid]).res.val

LastSolute == sols[last.sid].comps[last.solute]

\* C3: get_activity_coefficient selects the correlation by the ionic strength
\* I: I <= 0.005 the limiting law, 0.005 < I <= 0.1 Guntelberg,
\* 0.1 < I <= 0.5 Davies, I > 0.5 with TCPC parameters set TCPC.
C3_Dispatch ==
    last.op = "get_activity_coefficient" =>
        /\ QLeq(LastI, Dec(5, -3)) => last.log = "Debye-Huckel"
        /\ (QLt(Dec(5, -3), LastI) /\ QLeq(LastI, Dec(1, -1))) => last.log = "Guntelberg"
        /\ (QLt(Dec(1, -1), LastI) /\ QLeq(LastI, Dec(5, -1))) => last.log = "Davies"
        /\ (QLt(Dec(5, -1), LastI) /\ DOMAIN LastSolute.parameters_TCPC # {})
               => last.log = "TCPC"

\* get_activity_coefficient was called at an ionic strength of exactly 0.005
C3_Witness ==
    /\ last.op = "get_activity_coefficient"
    /\ LastI = Dec(5, -3)
    /\ last.log = "Debye-Huckel"

\* C4: at I <= 0.005, get_activity_coefficient(solute, T) equals
\* get_activity_coefficient_debyehuckel(I, z, T) for the solute's valence z.
C4_LimitingLaw ==
    (last.op = "get_activity_coefficient" /\ QLeq(LastI, Dec(5, -3))) =>
        last.res = get_activity_coefficient_debyehuckel(
                       LastI, QInt(LastSolute.charge), last.temperature)

\* C5: at I > 0.5 and with no TCPC parameters set for the solute,
\* get_activity_coefficient returns exactly 1.0.
C5_IdealFallback ==
    (/\ last.op = "get_activity_coefficient"
     /\ QLt(Dec(5, -1), LastI)
     /\ DOMAIN LastSolute.parameters_TCPC = {})
    => (last.res.kind = "num" /\ last.res.val = QOne)

\* get_activity_coefficient was called at I > 0.5 for a charged solute
\* without TCPC parameters
C5_Witness ==
    /\ last.op = "get_activity_coefficient"
    /\ QLt(Dec(5, -1), LastI)
    /\ DOMAIN LastSolute.parameters_TCPC = {}
    /\ LastSolute.charge # 0
    /\ last.res.kind = "num"

----------------------------------------------------------------------------
(* Properties of mix, entropy_mix and gibbsmix                             *)

\* the two Solutions the last mixing call was made on
Mix1 == sols[last.s1]
Mix2 == sols[last.s2]

WaterNames == {"H2O", "water"}

\* C6: for Solutions A and B sharing the water solvent, mix(A, B) returns a
\* Solution whose keys are the union of A's and B's formulas, with moles
\* A.moles + B.moles for a shared formula and the parent's moles otherwise.
C6_MixConservation ==
    (/\ last.op = "mix"
     /\ Mix1.solvent_name = Mix2.solvent_name
     /\ Mix1.solvent_name \in WaterNames)
    => /\ last.res.kind = "sol"
       /\ DOMAIN last.res.sol.comps = DOMAIN Mix1.comps \cup DOMAIN Mix2.comps
       /\ \A k \in DOMAIN Mix1.comps \cup DOMAIN Mix2.comps :
            last.res.sol.comps[k].moles =
                QAdd(IF k \in DOMAIN Mix1.comps THEN Mix1.comps[k].moles ELSE QZero,
                     IF k \in DOMAIN Mix2.comps THEN Mix2.comps[k].moles ELSE QZero)

\* C7: mix(A, B) raises and returns no Solution when the solvent names differ
\* or the solvent is not water, and logs no solvent error when both solvents
\* are water ('H2O' or 'water').
C7_SolventCheck ==
    last.op = "mix" =>
        /\ (Mix1.solvent_name # Mix2.solvent_name \/ Mix1.solvent_name \notin WaterNames)
              => last.res.kind = "raise"
        /\ (Mix1.solvent_name = Mix2.solvent_name /\ Mix1.solvent_name \in WaterNames)
              => last.log = <<>>

\* C8: when B holds nothing but the solvent it shares with A, mix(A, B) has
\* exactly A's non-solvent formulas, each with A's mole count.
C8_MixWithSolventOnly ==
    (/\ last.op = "mix"
     /\ DOMAIN Mix2.comps = {Mix2.solvent_name}
     /\ Mix1.solvent_name = Mix2.solvent_name)
    => /\ last.res.kind = "sol"
       /\ NonSolvent(last.res.sol) = NonSolvent(Mix1)
       /\ \A k \in NonSolvent(Mix1) :
            last.res.sol.comps[k].moles = Mix1.comps[k].moles

\* mix was called on a Solution with two dissolved ions and a distinct
\* Solution holding only the shared solvent
C8_Witness ==
    /\ last.op = "mix"
    /\ last.s1 # last.s2
    /\ DOMAIN Mix2.comps = {Mix2.solvent_name}
    /\ Mix1.solvent_name = Mix2.solvent_name
    /\ Cardinality(NonSolvent(Mix1)) = 2
    /\ \A k \in NonSolvent(Mix1) : ~QIsZero(Mix1.comps[k].moles)
    /\ last.res.kind = "sol"

\* two Solutions of the same composition: the same formulas with the same
\* moles and molecular weights, the same solvent, density and volume
Identical(x, y) ==
    /\ DOMAIN x.comps = DOMAIN y.comps
    /\ \A k \in DOMAIN x.comps :
          x.comps[k].moles = y.comps[k].moles /\ x.comps[k].mw = y.comps[k].mw
    /\ x.solvent_name = y.solvent_name
    /\ x.density = y.density
    /\ x.volume = y.volume

\* C9: entropy_mix(A, B) is zero whenever A and B are identical
\* compositions, the same object included.
C9_EntropyMixIdentical ==
    (last.op = "entropy_mix" /\ Identical(Mix1, Mix2))
    => (last.res.kind = "num" /\ QIsZero(last.res.val))

\* entropy_mix was called on two distinct objects of the same composition
\* with a dissolved solute
C9_Witness ==
    /\ last.op = "entropy_mix"
    /\ last.s1 # last.s2
    /\ Identical(Mix1, Mix2)
    /\ \E k \in NonSolvent(Mix1) : ~QIsZero(Mix1.comps[k].moles)
    /\ last.res.kind = "num"

\* entropy_mix was called with the same object as both arguments
C9_WitnessSameObject ==
    /\ last.op = "entropy_mix"
    /\ last.s1 = last.s2
    /\ \E k \in NonSolvent(Mix1) : ~QIsZero(Mix1.comps[k].moles)
    /\ last.res.kind = "num"

\* C10: gibbsmix(A, B) is zero whenever A and B are identical compositions,
\* in every ionic-strength regime.
C10_GibbsMixIdentical ==
    (last.op = "gibbsmix" /\ Identical(Mix1, Mix2))
    => (last.res.kind = "num" /\ QIsZero(last.res.val))

----------------------------------------------------------------------------
(* Frame properties of the mixing functions                                *)

MixOps == {"mix", "entropy_mix", "gibbsmix"}

\* what a Solution holds apart from the attribute ionic_strength: the
\* components with their moles, molar masses and parameters, the volume,
\* density, temperature, pressure and solvent name
Frame(ss) ==
    [s \in SIDs |-> [keys |-> ss[s].keys, comps |-> ss[s].comps,
                     volume |-> ss[s].volume, density |-> ss[s].density,
                     temperature |-> ss[s].temperature, pressure |-> ss[s].pressure,
                     solvent_name |-> ss[s].solvent_name]]

\* C11: mix, entropy_mix and gibbsmix leave the moles, molar masses,
\* parameters, volume, density, temperature and solvent name of both input
\* Solutions as they were, and the same call made again returns the same
\* result.
C11_MixFrame ==
    [][last'.op \in MixOps =>
          /\ Frame(sols') = Frame(sols)
          /\ last'.rep => last'.res = last.res]_vars

\* gibbsmix was called a second time on two Solutions with dissolved ions
\* and returned a number or a sum of logarithms
C11_Witness ==
    /\ last.op = "gibbsmix"
    /\ last.rep
    /\ last.res.kind \in {"num", "lin"}
    /\ sols[last.s1].ionic_strength.kind = "num"
    /\ ~QIsZero(sols[last.s1].ionic_strength.val)

----------------------------------------------------------------------------
(* Properties of the ionic strength and the volume                         *)

\* the sum over the set S of components of (moles / volume) * valence^2
RECURSIVE SquaredCharges(_, _)
SquaredCharges(sol, S) ==
    IF S = {} THEN QZero
    ELSE QAdd(QMul(QDiv(sol.comps[CHOOSE k \in S : TRUE].moles, sol.volume.val),
                   QInt(sol.comps[CHOOSE k \in S : TRUE].charge
                            * sol.comps[CHOOSE k \in S : TRUE].charge)),
              SquaredCharges(sol, S \ {CHOOSE k \in S : TRUE}))

\* C12: get_ionic_strength() returns 0.5 * the sum over all components, the
\* solvent included, of (current moles / volume) * valence^2, after
\* construction and after any set_amount calls.
C12_IonicStrength ==
    last.op = "get_ionic_strength" =>
        /\ last.res.kind = "num"
        /\ last.res.val = QMul(Dec(5, -1),
                               SquaredCharges(sols[last.sid], DOMAIN sols[last.sid].comps))

\* get_ionic_strength was called after set_amount on a Solution with two
\* ions of different mole counts
C12_Witness ==
    /\ last.op = "get_ionic_strength"
    /\ nset > 0
    /\ ~QIsZero(last.res.val)
    /\ \E j, k \in NonSolvent(sols[last.sid]) :
          sols[last.sid].comps[j].moles # sols[last.sid].comps[k].moles

\* the volume in liters of a Solution's current mass at its density
VolumeOfMass(sol) == QMul(QDiv(get_mass(sol), sol.density), QInt(1000))

\* C13: the volume is the total mass (kg) / density (kg/m3) in liters at
\* construction, and get_volume() returns that value after any set_amount
\* calls, whatever the mass has become.
C13_VolumeFixed ==
    [][\A s \in SIDs :
          /\ nset = 0 => get_volume(sols[s]) = Num(VolumeOfMass(sols[s]))
          /\ get_volume(sols'[s]) = get_volume(sols[s])]_vars

\* set_amount has changed a mole count, and the volume is no longer the
\* volume of the Solution's mass
C13_Witness ==
    /\ last.op = "set_amount"
    /\ last.res.kind = "none"
    /\ get_volume(sols[last.sid]).kind = "num"
    /\ get_volume(sols[last.sid]).val # VolumeOfMass(sols[last.sid])

\* no non-solvent solute of sol holds any moles
NoSolute(sol) == \A k \in NonSolvent(sol) : QIsZero(sol.comps[k].moles)

\* C14: get_activity of the solvent of an aqueous Solution returns exactly 1
\* when the Solution contains no non-solvent solute (or none with moles).
C14_SolventActivity ==
    (/\ last.op = "get_activity"
     /\ last.solute = sols[last.sid].solvent_name
     /\ last.solute \in WaterNames
     /\ NoSolute(sols[last.sid]))
    => last.res = Num(QOne)

C14_Witness ==
    /\ last.op = "get_activity"
    /\ last.solute = sols[last.sid].solvent_name
    /\ NonSolvent(sols[last.sid]) = {}
    /\ last.res = Num(QOne)

\* the solute of the last call has no TCPC parameters
LastWithoutTCPC ==
    /\ last.op \in {"get_osmotic_coefficient", "get_water_activity"}
    /\ DOMAIN sols[last.sid].comps[last.solute].parameters_TCPC = {}

\* C15 as stated: get_osmotic_coefficient and get_water_activity for a solute
\* without TCPC parameters fail instead of returning a number.
C15_HardFailure == LastWithoutTCPC => IsRaise(last.res)

\* C15 as amended: for a solute without TCPC parameters
\* get_osmotic_coefficient logs an error and returns the unit coefficient 1,
\* and get_water_activity returns exp(-1 * 0.018015 * total moles of solute).
C15_UnitDefault ==
    LastWithoutTCPC =>
        /\ last.log = <<"Cannot calculate water activity">>
        /\ last.op = "get_osmotic_coefficient" => last.res = Num(QOne)
        /\ last.op = "get_water_activity" =>
              last.res = [kind |-> "exp",
                          arg |-> LCScale(QNeg(QMul(Dec(18015, -6),
                                     get_total_moles_solute(sols[last.sid]))),
                                  LCAtom(<<"one", <<>>>>))]

C15_Witness ==
    /\ LastWithoutTCPC
    /\ last.op = "get_water_activity"
    /\ ~QIsZero(get_total_moles_solute(sols[last.sid]))
    /\ last.res.kind = "exp"

\* the sign a character stands for, and the magnitude a digit 1..7 stands for
SignOf(c) == IF c = "+" THEN 1 ELSE IF c = "-" THEN -1 ELSE 0
MagnitudeOf(c) ==
    CASE c = "1" -> 1 [] c = "2" -> 2 [] c = "3" -> 3 [] c = "4" -> 4
      [] c = "5" -> 5 [] c = "6" -> 6 [] c = "7" -> 7 [] OTHER -> 0

\* the charge written at the end of a formula: a trailing sign, or a sign
\* followed by a last digit 1..7; <<>> when the formula ends otherwise
TrailingCharge(cs) ==
    IF SignOf(cs[Len(cs)]) # 0 THEN <<SignOf(cs[Len(cs)])>>
    ELSE IF Len(cs) > 1 /\ SignOf(cs[Len(cs) - 1]) # 0 /\ MagnitudeOf(cs[Len(cs)]) # 0
    THEN <<SignOf(cs[Len(cs) - 1]) * MagnitudeOf(cs[Len(cs)])>>
    ELSE <<>>

\* the characters of the formula last handed to add_solute in mol
LastFormula == Chars(last.d.formula)

\* the last call was add_solute of a formula in mol
AddedInMol == last.op = "add_solute" /\ last.d.unit = "mol"

\* C16: the charge of a Solute is an integer in -7..7 read from the end of
\* its formula: a sign followed by k in 1..7 gives +k or -k, a bare trailing
\* sign gives +1 or -1, and a formula without '+' or '-' gives 0.
C16_Charge ==
    AddedInMol =>
        /\ last.res.kind = "sol"
        /\ sols[last.sid].comps[last.d.formula].charge \in -7..7
        /\ TrailingCharge(LastFormula) # <<>> =>
              sols[last.sid].comps[last.d.formula].charge = TrailingCharge(LastFormula)[1]
        /\ ~(found(LastFormula, "+") \/ found(LastFormula, "-")) =>
              sols[last.sid].comps[last.d.formula].charge = 0

\* C17: a formula that contains '+' or '-' but ends in neither a sign nor a
\* sign and a digit 1..7 is not rejected: the Solute is created with charge 0
\* and the valence warning is printed.
C17_Unparseable ==
    (/\ AddedInMol
     /\ found(LastFormula, "+") \/ found(LastFormula, "-")
     /\ TrailingCharge(LastFormula) = <<>>)
    => /\ last.res.kind = "sol"
       /\ last.d.formula \in DOMAIN sols[last.sid].comps
       /\ sols[last.sid].comps[last.d.formula].charge = 0
       /\ last.res.printed = <<"Warning: valence of ion out of bounds">>

C17_Witness ==
    /\ AddedInMol
    /\ found(LastFormula, "+")
    /\ TrailingCharge(LastFormula) = <<>>
    /\ sols[last.sid].comps[last.d.formula].charge = 0
    /\ Len(last.res.printed) = 1

\* the moles add_solute is documented to store for the descriptor d, given
\* the volume and the solvent mass of sol
ExpectedMoles(sol, d) ==
    CASE d.unit = "mol" -> d.amount
      [] d.unit = "kg" -> QDiv(QMul(d.amount, QInt(1000)), d.mw)
      [] d.unit = "mol/kg" -> QMul(d.amount, get_solvent_mass(sol).val)
      [] d.unit = "mol/L" -> QMul(d.amount, sol.volume.val)
      [] d.unit = "g/L" -> QMul(QDiv(d.amount, d.mw), sol.volume.val)

\* C18: Solution(solutes, solvent) succeeds for solute descriptors in every
\* unit add_solute documents (mol/L, mol/kg, mol, g/L, kg) and stores the
\* converted mole count of each.
C18_ConstructUnits ==
    (/\ last.op = "Solution"
     /\ \A i \in DOMAIN last.solutes : last.solutes[i].unit \in AddUnits)
    => /\ last.res.kind = "sol"
       /\ \A i \in DOMAIN last.solutes :
             get_moles(sols[last.sid], last.solutes[i].formula)
                = ExpectedMoles(sols[last.sid], last.solutes[i])

\* the last call was mix on two Solutions in water
MixedInWater ==
    /\ last.op = "mix"
    /\ Mix1.solvent_name = Mix2.solvent_name
    /\ Mix1.solvent_name \in WaterNames

\* C19: for water Solutions A and B, C = mix(A, B) has the volume
\* A.get_volume() + B.get_volume() and the density (A.get_mass() +
\* B.get_mass()) / C's volume (in kg/m3), also when a formula carries
\* different molar masses in A and B.
C19_MixVolume ==
    MixedInWater =>
        /\ last.res.kind = "sol"
        /\ get_volume(last.res.sol) = PyAdd(get_volume(Mix1), get_volume(Mix2))
        /\ Num(last.res.sol.density) =
              PyTimes(PyDiv(Num(QAdd(get_mass(Mix1), get_mass(Mix2))),
                            get_volume(last.res.sol)), Num(QInt(1000)))

\* C20: every solute of mix(A, B) carries the molar mass and the TCPC
\* parameters of A when it is in A, and those of B when it is only in B.
C20_MixCopies ==
    MixedInWater =>
        /\ last.res.kind = "sol"
        /\ \A k \in DOMAIN last.res.sol.comps :
              /\ k \in DOMAIN Mix1.comps =>
                    /\ last.res.sol.comps[k].mw = Mix1.comps[k].mw
                    /\ last.res.sol.comps[k].parameters_TCPC = Mix1.comps[k].parameters_TCPC
              /\ k \notin DOMAIN Mix1.comps =>
                    /\ last.res.sol.comps[k].mw = Mix2.comps[k].mw
                    /\ last.res.sol.comps[k].parameters_TCPC = Mix2.comps[k].parameters_TCPC

\* the get_ methods of Solution among the operations
GetOps ==
    {"get_amount", "get_ionic_strength", "get_activity_coefficient", "get_activity",
     "get_osmotic_coefficient", "get_water_activity"}

\* C21: no get_ method of Solution modifies the object: after a call every
\* attribute of every Solution and of its Solutes is as it was before.
C21_GettersPure == [][last'.op \in GetOps => sols' = sols]_vars

\* x is y to within one part in ten thousand of a mol/L
Near(x, y) ==
    /\ QLeq(QAdd(x, QNeg(y)), Dec(1, -4))
    /\ QLeq(QAdd(y, QNeg(x)), Dec(1, -4))

\* get_ionic_strength was called on a Solution of 0.0115 mol Na+ and
\* 0.0175 mol Cl- in 1 kg of water at 1000 kg/m3
SaltScenario ==
    /\ last.op = "get_ionic_strength"
    /\ sols[last.sid].keys = <<"H2O", "Na+", "Cl-">>
    /\ get_moles(sols[last.sid], "Na+") = Dec(115, -4)
    /\ get_moles(sols[last.sid], "Cl-") = Dec(175, -4)
    /\ get_solvent_mass(sols[last.sid]) = Num(QOne)
    /\ sols[last.sid].density = QInt(1000)

\* C23 as stated: for Na+ = 0.0115 mol and Cl- = 0.0175 mol in water at
\* 1000 kg/m3, get_ionic_strength() is approximately 0.0115.
C23_IonicStrengthExample ==
    SaltScenario => last.res.kind = "num" /\ Near(last.res.val, Dec(115, -4))

\* C23 as amended: for that Solution get_ionic_strength() is
\* 0.5 * (0.0115 + 0.0175) / volume, approximately 0.0145.
C23_IonicStrengthValue ==
    SaltScenario => last.res.kind = "num" /\ Near(last.res.val, Dec(145, -4))

C23_Witness == SaltScenario /\ last.res.kind = "num" /\ QLt(QZero, last.res.val)

\* the documented validity ranges: water_viscosity_dynamic is "valid for
\* 273 < temperature < 1073 K and 0 < pressure < 100,000,000 Pa", and the
\* temperature of water_dielectric_constant "must be between 0 and 74 C";
\* water_density documents none
InDocumentedRange ==
    CASE last.op = "water_viscosity_dynamic" ->
            /\ QLt(QInt(273), kelvin(last.temperature))
            /\ QLt(kelvin(last.temperature), QInt(1073))
            /\ QLt(QZero, last.pressure)
            /\ QLt(last.pressure, QInt(100000000))
      [] last.op = "water_dielectric_constant" ->
            QLeq(QZero, last.temperature) /\ QLeq(last.temperature, QInt(74))
      [] OTHER -> TRUE

\* C22: water_density, water_viscosity_dynamic and water_dielectric_constant
\* return None with an error logged whenever the temperature or the pressure
\* is outside the documented validity range, never a computed value.
C22_WaterRanges ==
    (/\ last.op \in {"water_density", "water_viscosity_dynamic",
                     "water_dielectric_constant"}
     /\ ~InDocumentedRange)
    => last.res = None /\ last.log # <<>>

\* C24: after set_amount(s, x, 'fraction') with 0 <= x < 1, on the solvent or
\* on a solute, the mole fraction of s over the total moles after the update,
\* get_amount(s, 'fraction'), is x.
C24_FractionSet ==
    (/\ last.op = "set_amount"
     /\ last.unit = "fraction"
     /\ QLeq(QZero, last.amount) /\ QLt(last.amount, QOne))
    => get_amount(sols[last.sid], last.solute, "fraction") = Num(last.amount)

\* the place in the iteration order of the first non-solvent component
\* holding the greatest mole count of all non-solvent components
Dominant(sol) ==
    CHOOSE i \in 1..Len(sol.keys) :
        /\ sol.keys[i] # sol.solvent_name
        /\ \A j \in 1..Len(sol.keys) :
              sol.keys[j] # sol.solvent_name =>
                 /\ QLeq(get_moles(sol, sol.keys[j]), get_moles(sol, sol.keys[i]))
                 /\ j < i => QLt(get_moles(sol, sol.keys[j]), get_moles(sol, sol.keys[i]))

\* get_activity was called on the solvent of a Solution holding a solute
\* with moles
SolventActivityCalled ==
    /\ last.op = "get_activity"
    /\ last.solute = sols[last.sid].solvent_name
    /\ last.solute \in WaterNames
    /\ ~NoSolute(sols[last.sid])

\* C25: the solvent's activity is computed from the osmotic coefficient of
\* the non-solvent component with the greatest mole count, the first in
\* iteration order among several with that count, and never the solvent.
C25_DominantSolute ==
    SolventActivityCalled =>
        last.res = get_water_activity(sols[last.sid],
                       sols[last.sid].keys[Dominant(sols[last.sid])],
                       last.temperature).res

\* two solutes hold the greatest count and only the first has TCPC parameters
C25_Witness ==
    /\ SolventActivityCalled
    /\ \E j \in 1..Len(sols[last.sid].keys) :
          /\ j > Dominant(sols[last.sid])
          /\ get_moles(sols[last.sid], sols[last.sid].keys[j])
                = get_moles(sols[last.sid], sols[last.sid].keys[Dominant(sols[last.sid])])
          /\ DOMAIN sols[last.sid].comps[sols[last.sid].keys[j]].parameters_TCPC = {}
    /\ DOMAIN sols[last.sid].comps[sols[last.sid].keys[Dominant(sols[last.sid])]].parameters_TCPC # {}
    /\ last.res.kind = "exp"

\* C26: for water Solutions A and B, C = mix(A, B) has the solvent mass
\* A.get_solvent_mass() + B.get_solvent_mass(), whatever molar mass A and B
\* declare for the solvent.
C26_MixSolventMass ==
    MixedInWater =>
        /\ last.res.kind = "sol"
        /\ get_solvent_mass(last.res.sol)
              = PyAdd(get_solvent_mass(Mix1), get_solvent_mass(Mix2))

\* the formulas of the descriptors Solution() was last called with
DescriptorFormulas ==
    {last.solvent.formula} \cup {last.solutes[i].formula : i \in DOMAIN last.solutes}

\* C27: Solution(solutes, solvent) either raises or yields a Solution whose
\* component keys are exactly the solvent's formula and the formula of every
\* solute descriptor, whatever unit each descriptor names.
C27_AllOrNothing ==
    (last.op = "Solution" /\ last.res.kind = "sol")
    => DOMAIN sols[last.sid].comps = DescriptorFormulas

\* sol2 is sol1 but for the mole count of solute, and possibly the cached
\* volume and ionic strength
OnlyMolesOf(sol1, sol2, solute) ==
    /\ DOMAIN sol2.comps = DOMAIN sol1.comps
    /\ \A k \in DOMAIN sol1.comps :
          IF k = solute
          THEN [sol2.comps[k] EXCEPT !.moles = sol1.comps[k].moles] = sol1.comps[k]
          ELSE sol2.comps[k] = sol1.comps[k]
    /\ sol2.keys = sol1.keys
    /\ sol2.density = sol1.density
    /\ sol2.temperature = sol1.temperature
    /\ sol2.pressure = sol1.pressure
    /\ sol2.solvent_name = sol1.solvent_name

\* C29: set_amount(s, v, u) with a unit of its if / elif chain changes at
\* most the mole count of solute s: the mole count of every other component,
\* every molar mass, charge and parameter dictionary, and the Solution's
\* density, temperature, pressure and solvent name stay as they were, and
\* so does every other Solution.
C29_SetAmountFrame ==
    [][(last'.op = "set_amount" /\ last'.unit \in SetUnits)
          => /\ bags' = bags
             /\ \A s \in SIDs :
                   IF s = last'.sid THEN OnlyMolesOf(sols[s], sols'[s], last'.solute)
                   ELSE sols'[s] = sols[s]]_vars

\* set_amount has stored 0.5 mol in one component of a Solution that holds
\* two others
C29_Witness ==
    /\ last.op = "set_amount"
    /\ last.unit = "mol"
    /\ last.res.kind = "none"
    /\ last.amount = Dec(5, -1)
    /\ Len(sols[last.sid].keys) = 3
    /\ sols[last.sid].comps[last.solute].moles = Dec(5, -1)
    /\ \E k \in DOMAIN sols[last.sid].comps :
          sols[last.sid].comps[k].moles # Dec(5, -1)

\* x is a number greater than zero
IsPositive(x) ==
    CASE x.kind = "num" -> QSign(x.val) > 0
      [] x.kind = "prod" -> SymSign(x.sym) * QSign(x.q) > 0
      [] x.kind = "sym" -> SymSign(x) > 0
      [] x.kind = "exp" -> TRUE
      [] OTHER -> FALSE

\* C30: get_activity of a solute other than the solvent that holds a
\* positive mole count returns a number greater than zero, whichever branch
\* get_activity_coefficient takes (limiting law, Guntelberg, Davies, TCPC or
\* the value 1), so that its logarithm is defined.
C30_ActivityPositive ==
    (/\ last.op = "get_activity"
     /\ last.solute \in NonSolvent(sols[last.sid])
     /\ QSign(sols[last.sid].comps[last.solute].moles) > 0)
    => IsPositive(last.res)

\* the custom parameters of the Solute k of Solution s, given the content
\* bs of every dictionary
ParametersOf(bs, s, k) == bs[sols[s].comps[k].parameters]

\* C28: add_parameter on one Solute changes the custom parameters of that
\* Solute only: those of every other Solute, of the same Solution or of
\* the other one, are what they were before the call.
C28_NoSharedParameters ==
    [][last'.op = "add_parameter"
          => \A s \in SIDs : \A k \in DOMAIN sols[s].comps :
                \/ s = last'.sid /\ k = last'.solute
                \/ ParametersOf(bags', s, k) = ParametersOf(bags, s, k)]_vars

====
